---- MODULE Spec2Model ----
(***************************************************************************)
(* State-machine model of the hobby-desk-data paint scrapers: the          *)
(* reconciliation (merge) of freshly scraped records into catalogue files  *)
(* and the catalogue assembler.                                            *)
(*                                                                         *)
(* Strings whose content matters to the code (SKUs, names) are sequences   *)
(* of one-character strings, so that the normalisers are computed          *)
(* character by character as the regular expressions of the source do.     *)
(* Opaque strings (hex colours, urls, ids) are TLA+ strings.               *)
(***************************************************************************)
EXTENDS Integers, Sequences, FiniteSets, TLC

(***************************************************************************)
(* Bounds of the model.                                                    *)
(***************************************************************************)
MaxEntries == 2
MaxFresh == 2
MaxRuns == 2
MaxRaw == 3

(***************************************************************************)
(* Python values.                                                          *)
(***************************************************************************)
None == "None"

\* bool(x) of a str-or-None value held as a TLA+ string
Truthy(x) == x # None /\ x # ""

\* bool(s) of a str held as a sequence of characters
NonEmpty(s) == Len(s) > 0

\* the letters of the model's strings: lower-case |-> upper-case
UpperOf ==
    ("a" :> "A") @@ ("b" :> "B") @@ ("c" :> "C") @@ ("d" :> "D") @@ ("e" :> "E") @@
    ("k" :> "K") @@ ("l" :> "L") @@ ("m" :> "M") @@ ("p" :> "P") @@
    ("r" :> "R") @@ ("s" :> "S") @@ ("t" :> "T") @@ ("u" :> "U") @@ ("w" :> "W")

LowerOf ==
    ("A" :> "a") @@ ("B" :> "b") @@ ("C" :> "c") @@ ("D" :> "d") @@ ("E" :> "e") @@
    ("K" :> "k") @@ ("L" :> "l") @@ ("M" :> "m") @@ ("P" :> "p") @@
    ("R" :> "r") @@ ("S" :> "s") @@ ("T" :> "t") @@ ("U" :> "u") @@ ("W" :> "w")

\* str.upper() and str.lower() of one character
UpperChar(c) == IF c \in DOMAIN UpperOf THEN UpperOf[c] ELSE c
LowerChar(c) == IF c \in DOMAIN LowerOf THEN LowerOf[c] ELSE c

\* str.upper() and str.lower()
RECURSIVE Upper(_)
Upper(s) == IF s = <<>> THEN <<>> ELSE <<UpperChar(Head(s))>> \o Upper(Tail(s))

RECURSIVE Lower(_)
Lower(s) == IF s = <<>> THEN <<>> ELSE <<LowerChar(Head(s))>> \o Lower(Tail(s))

\* the regular-expression classes \s and \w on the characters of the model
SpaceChars == {" ", "\t"}
WordChars == DOMAIN UpperOf \cup DOMAIN LowerOf \cup {"0", "1", "2", "3", "9", "_"}
IsSpace(c) == c \in SpaceChars
IsWord(c) == c \in WordChars

\* re.sub(r'\s+', '', s)
RECURSIVE StripSpaces(_)
StripSpaces(s) ==
    IF s = <<>> THEN <<>>
    ELSE IF IsSpace(Head(s)) THEN StripSpaces(Tail(s))
    ELSE <<Head(s)>> \o StripSpaces(Tail(s))

\* mutant: the SKU is compared as scraped, without normalisation
normalize_sku_raw(sku) == sku

\* ak_paint_scraper.normalize_sku
normalize_sku(sku) ==
    IF ~NonEmpty(sku) THEN <<>> ELSE StripSpaces(Upper(sku))

\* re.sub(r'[^\w\s]', '', s)
RECURSIVE StripPunct(_)
StripPunct(s) ==
    IF s = <<>> THEN <<>>
    ELSE IF IsWord(Head(s)) \/ IsSpace(Head(s))
         THEN <<Head(s)>> \o StripPunct(Tail(s))
         ELSE StripPunct(Tail(s))

\* the maximal runs of non-space characters of s, in order (s.split())
RECURSIVE Words(_, _)
Words(s, cur) ==
    IF s = <<>> THEN (IF cur = <<>> THEN <<>> ELSE <<cur>>)
    ELSE IF IsSpace(Head(s))
         THEN (IF cur = <<>> THEN <<>> ELSE <<cur>>) \o Words(Tail(s), <<>>)
         ELSE Words(Tail(s), Append(cur, Head(s)))

\* ' '.join(ws)
RECURSIVE Join(_)
Join(ws) ==
    IF ws = <<>> THEN <<>>
    ELSE IF Len(ws) = 1 THEN ws[1]
    ELSE ws[1] \o <<" ">> \o Join(Tail(ws))

\* the filler words removed by normalize_name
FillerWords ==
    { <<"a", "k">>,
      <<"i", "n", "t", "e", "r", "a", "c", "t", "i", "v", "e">>,
      <<"a", "c", "r", "y", "l", "i", "c">>,
      <<"p", "a", "i", "n", "t">>,
      <<"c", "o", "l", "o", "r">>,
      <<"c", "o", "l", "o", "u", "r">> }

\* ak_paint_scraper.normalize_name: lowercase, drop punctuation, collapse
\* spaces, drop the filler words (whole words: after the punctuation is gone
\* a \b...\b match is a whole space-separated word), collapse spaces again
normalize_name(name) ==
    IF ~NonEmpty(name) THEN <<>>
    ELSE Join(SelectSeq(Words(StripPunct(Lower(name)), <<>>),
                        LAMBDA w : w \notin FillerWords))


(***************************************************************************)
(* Data of the model: the SKUs, names, fresh records and catalogue entries *)
(* the runs draw from.                                                     *)
(***************************************************************************)
SKU_AK1 == <<"A", "K", "1">>
SKU_ak_1 == <<"a", "k", " ", "1">>
SKU_AK2 == <<"A", "K", "2">>
SKU_AK9 == <<"A", "K", "9">>
NAME_Red == <<"R", "e", "d">>
NAME_Red_bang == <<"R", "e", "d", "!">>
NAME_Blue == <<"B", "l", "u", "e">>
NAME_Ak_Blue == <<"A", "k", " ", "B", "l", "u", "e">>
HEX_1 == "#112233"
HEX_2 == "#445566"

\* a scraped record: the keys of the dict that merge and assembler read
FreshPool ==
    { [sku |-> SKU_AK1, title |-> NAME_Red, hex |-> HEX_1, product_url |-> "u1", category |-> "General"],
      [sku |-> SKU_ak_1, title |-> NAME_Blue, hex |-> HEX_2, product_url |-> "", category |-> "Ink"],
      [sku |-> SKU_AK2, title |-> NAME_Red_bang, hex |-> HEX_2, product_url |-> "u2", category |-> "General"],
      [sku |-> SKU_AK2, title |-> NAME_Blue, hex |-> None, product_url |-> "u2", category |-> "Wash"],
      [sku |-> <<>>, title |-> NAME_Red, hex |-> HEX_1, product_url |-> "u1", category |-> ""] }

\* a catalogue entry: the fields merge reads or writes, and id for the rest
EntryPool ==
    { [sku |-> SKU_AK1, name |-> NAME_Red, hex |-> "", url |-> "u0", id |-> "id1"],
      [sku |-> SKU_ak_1, name |-> NAME_Blue, hex |-> HEX_1, url |-> "u0", id |-> "id2"],
      [sku |-> SKU_AK9, name |-> NAME_Red, hex |-> "", url |-> "u0", id |-> "id3"],
      [sku |-> SKU_AK9, name |-> NAME_Ak_Blue, hex |-> HEX_2, url |-> "u0", id |-> "id4"],
      [sku |-> SKU_AK2, name |-> NAME_Blue, hex |-> HEX_1, url |-> "", id |-> "id5"],
      [sku |-> <<>>, name |-> <<>>, hex |-> "", url |-> "", id |-> "id6"] }

\* every SKU and every name a record or an entry of the model can carry
SkuStrings == {p.sku : p \in FreshPool} \cup {e.sku : e \in EntryPool} \cup {SKU_AK2}
NameStrings == {p.title : p \in FreshPool} \cup {e.name : e \in EntryPool}

\* normalize_sku and normalize_name tabulated over those strings, so that a
\* run looks a normalized form up instead of recomputing it
RECURSIVE SkuTable(_)
SkuTable(S) ==
    IF S = {} THEN <<>>
    ELSE LET x == CHOOSE y \in S : TRUE
         IN  (x :> normalize_sku(x)) @@ SkuTable(S \ {x})

RECURSIVE NameTable(_)
NameTable(S) ==
    IF S = {} THEN <<>>
    ELSE LET x == CHOOSE y \in S : TRUE
         IN  (x :> normalize_name(x)) @@ NameTable(S \ {x})

SkuKey == SkuTable(SkuStrings)
NameKey == NameTable(NameStrings)

\* norm_sku = normalize_sku(...) and norm_name = normalize_name(...)
NormSku(sku) == SkuKey[sku]
NormName(name) == NameKey[name]

\* the largest and the smallest of a non-empty set of integers
Max(I) == CHOOSE i \in I : \A j \in I : j <= i
Min(I) == CHOOSE i \in I : \A j \in I : i <= j

\* the sequences over S of length at most n
BSeq(S, n) == UNION { [1..k -> S] : k \in 0..n }

\* what json.load gives for a catalogue file: a list of entries, a wrapper
\* object with a 'paints' key, some other JSON value (in the model an object
\* with keys, none of them 'paints'), or a parse error
Shapes == {"list", "wrapper", "other", "unparsable"}

CatalogueFile(shape, paints) ==
    [shape |-> shape,
     range |-> IF shape = "wrapper" THEN "r" ELSE "",
     name |-> IF shape = "wrapper" THEN "n" ELSE "",
     paints |-> IF shape \in {"list", "wrapper"} THEN paints ELSE <<>>]

FirstFiles ==
    { CatalogueFile(sh, ps) : sh \in {"list", "wrapper"}, ps \in BSeq(EntryPool, MaxEntries) }

SecondFiles ==
    { CatalogueFile("other", <<>>),
      CatalogueFile("unparsable", <<>>),
      CatalogueFile("list", <<[sku |-> SKU_AK2, name |-> NAME_Blue, hex |-> "", url |-> "u0", id |-> "id7"]>>) }

(***************************************************************************)
(* batch_update_json_files (AK Interactive; Vallejo's is the same code     *)
(* over its own normalisers).                                              *)
(***************************************************************************)

\* mutant: every record with a SKU enters the lookups, sampled or not
InLookup_all(p) == NonEmpty(p.sku)

\* the guard of the lookup loop: if paint.get('sku') and paint.get('hex')
InLookup(p) == NonEmpty(p.sku) /\ Truthy(p.hex)

\* s without its last element
Front(s) == SubSeq(s, 1, Len(s) - 1)

\* sku_to_data after the loop over S: a later record overwrites an earlier
\* one of the same normalized SKU
RECURSIVE sku_to_data(_)
sku_to_data(S) ==
    IF S = <<>> THEN <<>>
    ELSE LET paint == S[Len(S)]
             d == sku_to_data(Front(S))
         IN  IF InLookup(paint) THEN (NormSku(paint.sku) :> paint) @@ d ELSE d

\* the record enters the name lookup d: it has a title, a non-empty
\* normalized name, and no earlier record took that name
NameIsNew(paint, d) ==
    /\ NonEmpty(paint.title)
    /\ NonEmpty(NormName(paint.title))
    /\ NormName(paint.title) \notin DOMAIN d

\* name_to_data after the loop over S: the first record of a name is kept
RECURSIVE name_to_data(_)
name_to_data(S) ==
    IF S = <<>> THEN <<>>
    ELSE LET paint == S[Len(S)]
             d == name_to_data(Front(S))
         IN  IF InLookup(paint) /\ NameIsNew(paint, d)
             THEN d @@ (NormName(paint.title) :> paint)
             ELSE d

\* mutant: the name lookup is consulted before the SKU lookup
MatchType_name_first(paint, s2d, n2d) ==
    LET nn == NormName(paint.name)
    IN  IF NonEmpty(nn) /\ nn \in DOMAIN n2d THEN "name"
        ELSE IF NormSku(paint.sku) \in DOMAIN s2d THEN "sku"
        ELSE "none"

\* match_type of one existing entry: SKU first, name as the fallback
MatchType(paint, s2d, n2d) ==
    LET nn == NormName(paint.name)
    IN  IF NormSku(paint.sku) \in DOMAIN s2d THEN "sku"
        ELSE IF NonEmpty(nn) /\ nn \in DOMAIN n2d THEN "name"
        ELSE "none"

\* matched_data of one existing entry (None when nothing matched)
MatchedData(paint, s2d, n2d) ==
    LET mt == MatchType(paint, s2d, n2d)
    IN  IF mt = "sku" THEN s2d[NormSku(paint.sku)]
        ELSE IF mt = "name" THEN n2d[NormName(paint.name)]
        ELSE None

\* the entry's SKU is rewritten: matched by name to a record whose SKU differs
SkuChanged(paint, mt, md) ==
    mt = "name" /\ paint.sku # md.sku /\ NonEmpty(md.sku)

\* what the iteration adds to sku_changes
SkuChangeCount(paint, mt, md) ==
    IF SkuChanged(paint, mt, md) THEN 1 ELSE 0

\* mutant: the URL is overwritten even by a record that carries none
NewUrl_always(paint, mt, md) ==
    IF SkuChanged(paint, mt, md) THEN md.product_url ELSE paint.url

\* the entry's url after the step: replaced only together with the SKU, and
\* only when the record has a product_url
NewUrl(paint, mt, md) ==
    IF SkuChanged(paint, mt, md) /\ Truthy(md.product_url)
    THEN md.product_url ELSE paint.url

\* mutant: an entry matched by name also takes the title of the record
MergeEntry_renames(paint, s2d, n2d) ==
    LET mt == MatchType(paint, s2d, n2d)
        md == MatchedData(paint, s2d, n2d)
        hexDiff == paint.hex # md.hex
    IN  IF mt = "none"
        THEN [paint |-> paint, match_type |-> mt, updated |-> 0,
              sku_changes |-> 0,
              not_found |-> NonEmpty(NormSku(paint.sku))]
        ELSE [paint |-> [paint EXCEPT
                           !.hex = IF hexDiff THEN md.hex ELSE @,
                           !.sku = IF SkuChanged(paint, mt, md) THEN md.sku ELSE @,
                           !.url = NewUrl(paint, mt, md),
                           !.name = IF mt = "name" THEN md.title ELSE @],
              match_type |-> mt,
              updated |-> IF hexDiff \/ SkuChanged(paint, mt, md) THEN 1 ELSE 0,
              sku_changes |-> SkuChangeCount(paint, mt, md),
              not_found |-> FALSE]

\* one iteration of "for paint in paint_list": the entry afterwards and what
\* the iteration adds to updated, sku_changes and not_found
MergeEntry(paint, s2d, n2d) ==
    LET mt == MatchType(paint, s2d, n2d)
        md == MatchedData(paint, s2d, n2d)
        hexDiff == paint.hex # md.hex
    IN  IF mt = "none"
        THEN [paint |-> paint, match_type |-> mt, updated |-> 0,
              sku_changes |-> 0,
              not_found |-> NonEmpty(NormSku(paint.sku))]
        ELSE [paint |-> [paint EXCEPT
                           !.hex = IF hexDiff THEN md.hex ELSE @,
                           !.sku = IF SkuChanged(paint, mt, md) THEN md.sku ELSE @,
                           !.url = NewUrl(paint, mt, md)],
              match_type |-> mt,
              updated |-> IF hexDiff \/ SkuChanged(paint, mt, md) THEN 1 ELSE 0,
              sku_changes |-> SkuChangeCount(paint, mt, md),
              not_found |-> FALSE]


\* the iterations of the loop over paint_list, in order
RECURSIVE MergeAll(_, _, _)
MergeAll(paints, s2d, n2d) ==
    IF paints = <<>> THEN <<>>
    ELSE <<MergeEntry(Head(paints), s2d, n2d)>> \o MergeAll(Tail(paints), s2d, n2d)

RECURSIVE SumUpdated(_)
SumUpdated(res) == IF res = <<>> THEN 0 ELSE Head(res).updated + SumUpdated(Tail(res))

RECURSIVE SumSkuChanges(_)
SumSkuChanges(res) ==
    IF res = <<>> THEN 0 ELSE Head(res).sku_changes + SumSkuChanges(Tail(res))

RECURSIVE PaintsOf(_)
PaintsOf(res) == IF res = <<>> THEN <<>> ELSE <<Head(res).paint>> \o PaintsOf(Tail(res))

RECURSIVE MatchTypesOf(_)
MatchTypesOf(res) ==
    IF res = <<>> THEN <<>> ELSE <<Head(res).match_type>> \o MatchTypesOf(Tail(res))

\* not_found: the stored SKUs of the entries that matched nothing
RECURSIVE NotFoundOf(_)
NotFoundOf(res) ==
    IF res = <<>> THEN <<>>
    ELSE (IF Head(res).not_found THEN <<Head(res).paint.sku>> ELSE <<>>)
         \o NotFoundOf(Tail(res))

\* mutant: a file of an unrecognised shape is treated as an empty list
Recognised_any(file) == file.shape # "unparsable"

\* json.load succeeded and the data is a list or a dict with 'paints'
Recognised(file) == file.shape \in {"list", "wrapper"}

\* mutant: the file is written back without the entries that matched nothing
Rewritten_pruned(file, res) ==
    [file EXCEPT !.paints = PaintsOf(SelectSeq(res, LAMBDA r : r.match_type # "none"))]

\* json.dump(data): the loaded data with its entries as the loop left them
Rewritten(file, res) == [file EXCEPT !.paints = PaintsOf(res)]

\* the end of the loop body for one recognised file, res being the results of
\* its iterations: the file is written only when updated > 0
FileResult(file, res) ==
    [file |-> IF SumUpdated(res) > 0 THEN Rewritten(file, res) ELSE file,
     skipped |-> FALSE,
     written |-> SumUpdated(res) > 0,
     updated |-> SumUpdated(res),
     sku_changes |-> SumSkuChanges(res),
     match_type |-> MatchTypesOf(res),
     not_found |-> NotFoundOf(res)]

\* the body of "for json_path in json_files" for one file: a file that does
\* not parse or has an unrecognised shape is reported and skipped
UpdateFile(file, s2d, n2d) ==
    IF ~Recognised(file)
    THEN [file |-> file, skipped |-> TRUE, written |-> FALSE,
          updated |-> 0, sku_changes |-> 0,
          match_type |-> <<>>, not_found |-> <<>>]
    ELSE FileResult(file, MergeAll(file.paints, s2d, n2d))

\* the loop over json_files
RECURSIVE UpdateFiles(_, _, _)
UpdateFiles(d, s2d, n2d) ==
    IF d = <<>> THEN <<>>
    ELSE <<UpdateFile(Head(d), s2d, n2d)>> \o UpdateFiles(Tail(d), s2d, n2d)

RECURSIVE FilesOf(_)
FilesOf(res) == IF res = <<>> THEN <<>> ELSE <<Head(res).file>> \o FilesOf(Tail(res))

\* total_updated / total_sku_updated: only files with updated > 0 add to them
RECURSIVE TotalUpdated(_)
TotalUpdated(res) ==
    IF res = <<>> THEN 0
    ELSE (IF Head(res).updated > 0 THEN Head(res).updated ELSE 0) + TotalUpdated(Tail(res))

RECURSIVE TotalSkuUpdated(_)
TotalSkuUpdated(res) ==
    IF res = <<>> THEN 0
    ELSE (IF Head(res).updated > 0 THEN Head(res).sku_changes ELSE 0)
         + TotalSkuUpdated(Tail(res))

\* the normalized SKUs of one list of entries
RECURSIVE SkusOf(_)
SkusOf(paints) ==
    IF paints = <<>> THEN {}
    ELSE {NormSku(Head(paints).sku)} \cup SkusOf(Tail(paints))

\* all_json_skus: the SKUs of the files re-read after the merge (a file that
\* cannot be read or has no 'paints' adds nothing)
RECURSIVE AllJsonSkus(_)
AllJsonSkus(d) ==
    IF d = <<>> THEN {}
    ELSE (IF Head(d).shape \in {"list", "wrapper"} THEN SkusOf(Head(d).paints) \ {<<>>} ELSE {})
         \cup AllJsonSkus(Tail(d))

\* unmatched_scraped: the scraped SKUs that no file holds
RECURSIVE UnmatchedScraped(_, _)
UnmatchedScraped(S, skus) ==
    IF S = <<>> THEN <<>>
    ELSE (IF NormSku(Head(S).sku) \notin skus /\ NonEmpty(Head(S).sku)
          THEN <<Head(S).sku>> ELSE <<>>)
         \o UnmatchedScraped(Tail(S), skus)

\* what batch_update_json_files leaves and prints, res being the per-file results
BatchReport(res, S) ==
    [files |-> res,
     total_updated |-> TotalUpdated(res),
     total_sku_updated |-> TotalSkuUpdated(res),
     unmatched_scraped |-> UnmatchedScraped(S, AllJsonSkus(FilesOf(res))),
     crashed_at |-> 0]

(***************************************************************************)
(* Monument Hobbies: update_existing_json and the --update-all loop of     *)
(* main.  colors maps a raw SKU to a sampled hex.                          *)
(***************************************************************************)
MonumentSkus == {SKU_AK1, SKU_AK2}

\* the dicts scrape_colors_parallel can return: only truthy SKUs and colours
MonumentColors == UNION { [D -> {HEX_1, HEX_2}] : D \in SUBSET MonumentSkus }

\* "for paint in data: paint.get(...)" runs only over a list of entries:
\* iterating a JSON object yields its keys, and str has no get; a file that
\* does not parse raises in json.load
MonumentAccepts(file) == file.shape = "list"

\* one iteration of the loop of update_existing_json
MonumentUpdateEntry(paint, c) ==
    IF paint.sku \in DOMAIN c /\ Truthy(c[paint.sku]) /\ paint.hex # c[paint.sku]
    THEN [paint EXCEPT !.hex = c[paint.sku]]
    ELSE paint

RECURSIVE MonumentUpdateEntries(_, _)
MonumentUpdateEntries(paints, c) ==
    IF paints = <<>> THEN <<>>
    ELSE <<MonumentUpdateEntry(Head(paints), c)>> \o MonumentUpdateEntries(Tail(paints), c)

\* "for filepath in json_files: update_existing_json; json.dump" from file k
\* on: an exception ends the process, so the files before it are written and
\* the rest are untouched.  crashed_at is the file that raised (0: none).
RECURSIVE MonumentRun(_, _, _)
MonumentRun(d, c, k) ==
    IF d = <<>> THEN [dir |-> <<>>, crashed_at |-> 0]
    ELSE IF ~MonumentAccepts(Head(d)) THEN [dir |-> d, crashed_at |-> k]
    ELSE LET rest == MonumentRun(Tail(d), c, k + 1)
         IN  [dir |-> <<[Head(d) EXCEPT !.paints = MonumentUpdateEntries(@, c)]>> \o rest.dir,
              crashed_at |-> rest.crashed_at]

(***************************************************************************)
(* Display names: to_sentence_case and clean_paint_name of AK Interactive, *)
(* to_title_case of Reaper.                                                *)
(***************************************************************************)
\* None where a str held as characters is expected, and a key the dict lacks
NoneStr == <<None>>
Absent == "Absent"

\* bool(v) of an Optional[str] held as characters
TruthyStr(s) == s # <<>> /\ s # NoneStr

\* dict.get(key, default), v being the value of the key or Absent
GetOr(v, default) == IF v = Absent THEN default ELSE v

IsLetter(c) == c \in DOMAIN UpperOf \/ c \in DOMAIN LowerOf
IsDigit(c) == c \in {"0", "1", "2", "3", "4", "5", "6", "7", "8", "9"}

\* str.title(): a letter after a letter is lowered, any other letter raised
RECURSIVE Title(_, _)
Title(s, afterLetter) ==
    IF s = <<>> THEN <<>>
    ELSE <<IF afterLetter THEN LowerChar(Head(s)) ELSE UpperChar(Head(s))>>
         \o Title(Tail(s), IsLetter(Head(s)))

\* a word all in one case is title-cased, a mixed-case word is kept
SentenceWord(word) ==
    IF Upper(word) = word \/ Lower(word) = word THEN Title(word, FALSE) ELSE word

RECURSIVE SentenceWords(_)
SentenceWords(ws) ==
    IF ws = <<>> THEN <<>> ELSE <<SentenceWord(Head(ws))>> \o SentenceWords(Tail(ws))

\* ak_paint_scraper.to_sentence_case
to_sentence_case(name) ==
    IF ~TruthyStr(name) THEN name ELSE Join(SentenceWords(Words(name, <<>>)))

\* reaper_paint_scraper.to_title_case; html.unescape changes no string of
\* the model, none holding an '&'
to_title_case(name) ==
    IF ~TruthyStr(name) THEN name ELSE Join(SentenceWords(Words(name, <<>>)))

\* s.lstrip(), s.rstrip() and s.strip()
RECURSIVE LStrip(_)
LStrip(s) == IF s # <<>> /\ IsSpace(Head(s)) THEN LStrip(Tail(s)) ELSE s

RECURSIVE RStrip(_)
RStrip(s) == IF s # <<>> /\ IsSpace(s[Len(s)]) THEN RStrip(Front(s)) ELSE s

Strip(s) == LStrip(RStrip(s))

\* "sub in s", and the parts of s.rsplit(sep, 1) when sep is in s
Occurrences(s, sub) ==
    { i \in 1..(Len(s) - Len(sub) + 1) : SubSeq(s, i, i + Len(sub) - 1) = sub }

Contains(s, sub) == Occurrences(s, sub) # {}

RSplit(s, sep) ==
    LET i == Max(Occurrences(s, sep))
    IN  <<SubSeq(s, 1, i - 1), SubSeq(s, i + Len(sep), Len(s))>>

\* the en dash and the em dash, one character each
EnDash == "endash"
EmDash == "emdash"

\* the separators clean_paint_name tries, in its order
Separators ==
    << <<" ", EnDash, " ">>, <<"-", " ">>, <<" ", "-", " ">>,
       <<" ", EmDash, " ">>, <<EmDash, " ">> >>

strip_suffixes ==
    { <<"c", "o", "l", "o", "r">>, <<"g", "e", "n">>,
      <<"s", "h", "a", "d", "e">>, <<"i", "n", "k">>,
      <<"w", "a", "s", "h">>, <<"m", "a", "r", "k", "e", "r">>,
      <<"r", "e", "a", "l">>, <<"f", "i", "g", "u", "r", "e", "s">>,
      <<"a", "f", "v">>, <<"a", "i", "r">>,
      <<"s", "t", "a", "n", "d", "a", "r", "d">>, <<"i", "n", "t", "e", "n", "s", "e">>,
      <<"m", "e", "t", "a", "l", "l", "i", "c">>, <<"p", "a", "s", "t", "e", "l">>,
      <<"a", "u", "x", "i", "l", "i", "a", "r", "y">>, <<"e", "f", "e", "c", "t", "o">>,
      <<"l", "i", "n", "o">>, <<"w", "a", "r", "g", "a", "m", "e">> }

\* the loop over the separators: the text after the last separator goes
\* when it holds a range, category or marketing word
RECURSIVE StripRangeSuffix(_, _)
StripRangeSuffix(name, seps) ==
    IF seps = <<>> THEN name
    ELSE IF /\ Contains(name, Head(seps))
            /\ \E x \in strip_suffixes :
                 Contains(Lower(RSplit(name, Head(seps))[2]), x)
         THEN Strip(RSplit(name, Head(seps))[1])
         ELSE StripRangeSuffix(name, Tail(seps))

RECURSIVE DropTrailingDigits(_)
DropTrailingDigits(s) ==
    IF s # <<>> /\ IsDigit(s[Len(s)]) THEN DropTrailingDigits(Front(s)) ELSE s

\* s ends in "ml", in either case
EndsWithMl(s) ==
    Len(s) >= 2 /\ LowerChar(s[Len(s) - 1]) = "m" /\ LowerChar(s[Len(s)]) = "l"

\* re.sub(r'\s*\(\d+\s*ml\)\s*$', '', s, flags=re.IGNORECASE)
SizeParen(s) ==
    LET t1 == RStrip(s)
        t2 == Front(t1)
        t3 == RStrip(SubSeq(t2, 1, Len(t2) - 2))
        t4 == DropTrailingDigits(t3)
    IN  IF /\ t1 # <<>>
           /\ t1[Len(t1)] = ")"
           /\ EndsWithMl(t2)
           /\ Len(t4) < Len(t3)
           /\ t4 # <<>>
           /\ t4[Len(t4)] = "("
        THEN RStrip(Front(t4))
        ELSE s

\* re.sub(r'\s+\d+\s*ml\s*$', '', s, flags=re.IGNORECASE)
SizeBare(s) ==
    LET t1 == RStrip(s)
        t3 == RStrip(SubSeq(t1, 1, Len(t1) - 2))
        t4 == DropTrailingDigits(t3)
    IN  IF /\ EndsWithMl(t1)
           /\ Len(t4) < Len(t3)
           /\ t4 # <<>>
           /\ IsSpace(t4[Len(t4)])
        THEN RStrip(t4)
        ELSE s

\* ak_paint_scraper.clean_paint_name
clean_paint_name(name) ==
    IF ~TruthyStr(name) THEN name
    ELSE Strip(SizeBare(Strip(SizeParen(StripRangeSuffix(name, Separators)))))

(***************************************************************************)
(* Catalogue assembly: generate_catalogue of AK Interactive, of Reaper and *)
(* of Monument Hobbies, each with the sort that ends it.                   *)
(***************************************************************************)
\* ord(c) of the characters a SKU of the model holds
CharCode ==
    (" " :> 32) @@ ("!" :> 33) @@ ("-" :> 45) @@ ("." :> 46) @@ ("/" :> 47) @@
    ("0" :> 48) @@ ("1" :> 49) @@ ("2" :> 50) @@ ("3" :> 51) @@ ("4" :> 52) @@
    ("5" :> 53) @@ ("6" :> 54) @@ ("7" :> 55) @@ ("8" :> 56) @@ ("9" :> 57) @@
    ("A" :> 65) @@ ("B" :> 66) @@ ("D" :> 68) @@ ("E" :> 69) @@ ("K" :> 75) @@
    ("L" :> 76) @@ ("M" :> 77) @@ ("P" :> 80) @@ ("R" :> 82) @@ ("S" :> 83) @@
    ("T" :> 84) @@ ("U" :> 85) @@ ("a" :> 97) @@ ("b" :> 98) @@ ("d" :> 100) @@
    ("e" :> 101) @@ ("k" :> 107) @@ ("l" :> 108) @@ ("m" :> 109) @@ ("p" :> 112) @@
    ("r" :> 114) @@ ("s" :> 115) @@ ("t" :> 116) @@ ("u" :> 117)

\* a < b of two str
RECURSIVE StrLess(_, _)
StrLess(a, b) ==
    IF b = <<>> THEN FALSE
    ELSE IF a = <<>> THEN TRUE
    ELSE IF Head(a) = Head(b) THEN StrLess(Tail(a), Tail(b))
    ELSE CharCode[Head(a)] < CharCode[Head(b)]

\* list.sort(key=lambda x: x['sku']): a stable sort, each entry going in
\* after the entries that are not greater
RECURSIVE InsertBySku(_, _)
InsertBySku(x, s) ==
    IF s = <<>> THEN <<x>>
    ELSE IF StrLess(x.sku, Head(s).sku) THEN <<x>> \o s
    ELSE <<Head(s)>> \o InsertBySku(x, Tail(s))

RECURSIVE SortBySku(_)
SortBySku(s) == IF s = <<>> THEN <<>> ELSE InsertBySku(s[Len(s)], SortBySku(Front(s)))

\* the text after the last '/' of url.rstrip('/')
RECURSIVE RStripSlash(_)
RStripSlash(s) == IF s # <<>> /\ s[Len(s)] = "/" THEN RStripSlash(Front(s)) ELSE s

RECURSIVE LastSegment(_)
LastSegment(s) ==
    IF s = <<>> \/ s[Len(s)] = "/" THEN <<>>
    ELSE Append(LastSegment(Front(s)), s[Len(s)])

RECURSIVE DashesToSpaces(_)
DashesToSpaces(s) ==
    IF s = <<>> THEN <<>>
    ELSE <<IF Head(s) = "-" THEN " " ELSE Head(s)>> \o DashesToSpaces(Tail(s))

\* url.rstrip('/').split('/')[-1].replace('-', ' ').title()
UrlName(url) == Title(DashesToSpaces(LastSegment(RStripSlash(url))), FALSE)

\* the name of an AK entry: the title, else the name the URL gives, in
\* sentence case and cleaned
AkName(paint) ==
    LET name == IF ~TruthyStr(paint.title) /\ TruthyStr(paint.product_url)
                THEN UrlName(paint.product_url)
                ELSE paint.title
    IN  IF TruthyStr(name) THEN clean_paint_name(to_sentence_case(name)) ELSE name

\* the entry generate_catalogue of AK builds for a record
AkEntry(paint, range_name) ==
    [brand |-> "AK Interactive",
     brandData |-> <<>>,
     category |-> paint.category,
     discontinued |-> FALSE,
     hex |-> GetOr(paint.hex, ""),
     id |-> <<"ak-interactive-">> \o Lower(normalize_sku(paint.sku)),
     impcat |-> [layerId |-> None, shadeId |-> None],
     name |-> AkName(paint),
     range |-> range_name,
     sku |-> normalize_sku(paint.sku),
     type |-> paint.paint_type,
     url |-> paint.product_url]

\* a later duplicate's category replacing a specific one as well
PrefersNewCategory_any(existing_cat, new_cat) == Truthy(new_cat) /\ new_cat # "General"

\* existing_cat == 'General' and new_cat and new_cat != 'General'
PrefersNewCategory(existing_cat, new_cat) ==
    existing_cat = "General" /\ Truthy(new_cat) /\ new_cat # "General"

\* the loop of generate_catalogue of AK over the records left, catalogue
\* and seen_skus (normalized SKU |-> index) being what it has built
RECURSIVE AkAssemble(_, _, _, _)
AkAssemble(scraped_data, range_name, catalogue_, seen_skus) ==
    IF scraped_data = <<>> THEN catalogue_
    ELSE LET paint == Head(scraped_data)
             sku_clean == normalize_sku(paint.sku)
         IN  IF ~NonEmpty(paint.sku)
             THEN AkAssemble(Tail(scraped_data), range_name, catalogue_, seen_skus)
             ELSE IF sku_clean \in DOMAIN seen_skus
             THEN LET existing_idx == seen_skus[sku_clean]
                      existing_cat == catalogue_[existing_idx].category
                      new_cat == paint.category
                  IN  IF PrefersNewCategory(existing_cat, new_cat)
                      THEN AkAssemble(Tail(scraped_data), range_name,
                                      [catalogue_ EXCEPT ![existing_idx].category = new_cat],
                                      seen_skus)
                      ELSE AkAssemble(Tail(scraped_data), range_name, catalogue_, seen_skus)
             ELSE AkAssemble(Tail(scraped_data), range_name,
                             Append(catalogue_, AkEntry(paint, range_name)),
                             seen_skus @@ (sku_clean :> Len(catalogue_) + 1))

\* generate_catalogue without its final sort
generate_catalogue_unsorted(scraped_data, range_name) ==
    AkAssemble(scraped_data, range_name, <<>>, <<>>)

\* ak_paint_scraper.generate_catalogue
generate_catalogue(scraped_data, range_name) ==
    SortBySku(AkAssemble(scraped_data, range_name, <<>>, <<>>))

\* the entry generate_catalogue of Reaper builds; triads is empty unless
\* --with-triads is given, and brandData then empty
ReaperEntry(paint, range_name) ==
    [brand |-> "Reaper",
     brandData |-> <<>>,
     category |-> "",
     discontinued |-> FALSE,
     hex |-> GetOr(paint.hex, ""),
     id |-> <<"reaper-">> \o paint.sku,
     impcat |-> [layerId |-> None, shadeId |-> None],
     name |-> to_title_case(paint.name),
     range |-> GetOr(paint.range_name, range_name),
     sku |-> paint.sku,
     type |-> GetOr(paint.paint_type, "opaque"),
     url |-> GetOr(paint.product_url, "")]

\* the loop of generate_catalogue of Reaper; seen_skus holds raw SKUs
RECURSIVE ReaperAssemble(_, _, _)
ReaperAssemble(scraped_data, range_name, seen_skus) ==
    IF scraped_data = <<>> THEN <<>>
    ELSE LET paint == Head(scraped_data)
         IN  IF ~NonEmpty(paint.sku) \/ paint.sku \in seen_skus
             THEN ReaperAssemble(Tail(scraped_data), range_name, seen_skus)
             ELSE <<ReaperEntry(paint, range_name)>>
                  \o ReaperAssemble(Tail(scraped_data), range_name, seen_skus \cup {paint.sku})

\* reaper_paint_scraper.generate_catalogue
reaper_generate_catalogue(scraped_data, range_name) ==
    SortBySku(ReaperAssemble(scraped_data, range_name, {}))

\* '-SET' in sku or sku.endswith('-Set'), and sku.startswith('MPA-T')
IsPrefix(p, s) == Len(p) <= Len(s) /\ SubSeq(s, 1, Len(p)) = p
IsSuffix(p, s) == Len(p) <= Len(s) /\ SubSeq(s, Len(s) - Len(p) + 1, Len(s)) = p
IsSetProduct(sku) ==
    Contains(sku, <<"-", "S", "E", "T">>) \/ IsSuffix(<<"-", "S", "e", "t">>, sku)
IsTexture(sku) == IsPrefix(<<"M", "P", "A", "-", "T">>, sku)

\* monument_hobbies_scraper.scrape_all_products over the products of all
\* collections in order: the first product of each raw SKU is kept, sets
\* and basing textures are dropped
RECURSIVE scrape_all_products(_, _)
scrape_all_products(products, seen_skus) ==
    IF products = <<>> THEN <<>>
    ELSE LET product == Head(products)
             sku == product.sku
         IN  IF NonEmpty(sku) /\ sku \notin seen_skus /\ ~IsSetProduct(sku) /\ ~IsTexture(sku)
             THEN <<product>> \o scrape_all_products(Tail(products), seen_skus \cup {sku})
             ELSE scrape_all_products(Tail(products), seen_skus)

\* monument_hobbies_scraper.scrape_colors_parallel: {sku: hex} of the
\* products whose SKU and sampled colour are both truthy
RECURSIVE scrape_colors_parallel(_)
scrape_colors_parallel(products) ==
    IF products = <<>> THEN <<>>
    ELSE LET product == Head(products)
             rest == scrape_colors_parallel(Tail(products))
         IN  IF NonEmpty(product.sku) /\ Truthy(product.hex) /\ product.sku \notin DOMAIN rest
             THEN (product.sku :> product.hex) @@ rest
             ELSE rest

\* get_range_for_sku
get_range_for_sku(sku) ==
    IF IsPrefix(<<"M", "E", "A", "-">>, sku) THEN "Expert Acrylics"
    ELSE IF IsPrefix(<<"A", "M", "P", "-">>, sku) THEN "AMP Colors"
    ELSE "Pro Acryl"

\* the entry generate_catalogue of Monument builds: the fields that come
\* from the SKU, the colours and the handle (name, category, type and
\* brandData are left out)
MonumentEntry(product, c) ==
    [brand |-> "Monument Hobbies",
     discontinued |-> FALSE,
     hex |-> IF product.sku \in DOMAIN c THEN c[product.sku] ELSE "",
     id |-> <<"monument-hobbies-">> \o Lower(product.sku),
     impcat |-> [layerId |-> None, shadeId |-> None],
     range |-> get_range_for_sku(product.sku),
     sku |-> product.sku,
     url |-> <<"BASE_URL/products/", product.handle>>]

\* the loop of generate_catalogue of Monument: one entry per product with a SKU
RECURSIVE MonumentAssemble(_, _)
MonumentAssemble(products, c) ==
    IF products = <<>> THEN <<>>
    ELSE IF ~NonEmpty(Head(products).sku) THEN MonumentAssemble(Tail(products), c)
    ELSE <<MonumentEntry(Head(products), c)>> \o MonumentAssemble(Tail(products), c)

\* [A-Z] on the letters of the model
IsUpperLetter(c) == c \in DOMAIN LowerOf

RECURSIVE LeadingUpper(_)
LeadingUpper(s) ==
    IF s # <<>> /\ IsUpperLetter(Head(s)) THEN <<Head(s)>> \o LeadingUpper(Tail(s)) ELSE <<>>

DigitValue ==
    ("0" :> 0) @@ ("1" :> 1) @@ ("2" :> 2) @@ ("3" :> 3) @@ ("4" :> 4) @@
    ("5" :> 5) @@ ("6" :> 6) @@ ("7" :> 7) @@ ("8" :> 8) @@ ("9" :> 9)

AllDigits(s) == s # <<>> /\ \A i \in 1..Len(s) : IsDigit(s[i])

\* int(num)
RECURSIVE ToInt(_)
ToInt(s) == IF s = <<>> THEN 0 ELSE 10 * ToInt(Front(s)) + DigitValue[s[Len(s)]]

\* sku_sort_key: (prefix, letter, number) of a SKU that matches
\* ^([A-Z]+)-([A-Z]?)(\d+)$, else (sku, '', 0)
sku_sort_key(sku) ==
    LET prefix == LeadingUpper(sku)
        rest == SubSeq(sku, Len(prefix) + 2, Len(sku))
        letter == IF rest # <<>> /\ IsUpperLetter(Head(rest)) THEN <<Head(rest)>> ELSE <<>>
        num == SubSeq(rest, Len(letter) + 1, Len(rest))
    IN  IF /\ prefix # <<>>
           /\ Len(sku) > Len(prefix)
           /\ sku[Len(prefix) + 1] = "-"
           /\ AllDigits(num)
        THEN <<prefix, letter, ToInt(num)>>
        ELSE <<sku, <<>>, 0>>

\* k1 < k2 of two sort keys, as Python compares tuples
KeyLess(k1, k2) ==
    \/ StrLess(k1[1], k2[1])
    \/ /\ k1[1] = k2[1]
       /\ \/ StrLess(k1[2], k2[2])
          \/ k1[2] = k2[2] /\ k1[3] < k2[3]

\* catalogue.sort(key=sku_sort_key), a stable sort
RECURSIVE InsertByKey(_, _)
InsertByKey(x, s) ==
    IF s = <<>> THEN <<x>>
    ELSE IF KeyLess(sku_sort_key(x.sku), sku_sort_key(Head(s).sku)) THEN <<x>> \o s
    ELSE <<Head(s)>> \o InsertByKey(x, Tail(s))

RECURSIVE SortByKey(_)
SortByKey(s) == IF s = <<>> THEN <<>> ELSE InsertByKey(s[Len(s)], SortByKey(Front(s)))

\* monument_hobbies_scraper.generate_catalogue
monument_generate_catalogue(products, c) == SortByKey(MonumentAssemble(products, c))

\* citadel_paint_scraper.normalize_sku: the first run of 11 digits if there
\* is one, else the SKU without its whitespace
citadel_normalize_sku(sku) ==
    IF ~NonEmpty(sku) THEN <<>>
    ELSE LET runs == {i \in 1..(Len(sku) - 10) : \A j \in i..(i + 10) : IsDigit(sku[j])}
         IN  IF runs # {}
             THEN LET first == CHOOSE i \in runs : \A j \in runs : i <= j
                  IN  SubSeq(sku, first, first + 10)
             ELSE Strip(StripSpaces(sku))

\* vallejo_paint_scraper.normalize_sku: the SKU without its whitespace, and
\* with a dot after the second of exactly five digits
vallejo_normalize_sku(sku) ==
    IF ~NonEmpty(sku) THEN <<>>
    ELSE LET stripped == Strip(StripSpaces(sku))
         IN  IF Len(stripped) = 5 /\ AllDigits(stripped)
             THEN SubSeq(stripped, 1, 2) \o <<".">> \o SubSeq(stripped, 3, 5)
             ELSE stripped

\* the entry citadel_paint_scraper.generate_catalogue builds from a paint
\* (its "type" field, a classification of name and category, is left out)
CitadelEntry(paint, sku) ==
    [brand |-> "Games Workshop",
     category |-> IF paint.paintType # <<>> THEN paint.paintType[1] ELSE "Unknown",
     discontinued |-> ~paint.isAvailable,
     hex |-> GetOr(paint._hex, None),
     id |-> <<"c", "i", "t", "a", "d", "e", "l", "-">> \o sku,
     name |-> paint.name,
     range |-> "Citadel",
     sku |-> sku,
     url |-> paint.slug]

\* the loop of citadel_paint_scraper.generate_catalogue
RECURSIVE CitadelAssemble(_, _)
CitadelAssemble(scraped_data, seen_skus) ==
    IF scraped_data = <<>> THEN <<>>
    ELSE LET paint == Head(scraped_data)
             sku == citadel_normalize_sku(paint.sku)
         IN  IF sku = <<>> \/ sku \in seen_skus
             THEN CitadelAssemble(Tail(scraped_data), seen_skus)
             ELSE <<CitadelEntry(paint, sku)>>
                      \o CitadelAssemble(Tail(scraped_data), seen_skus \cup {sku})

\* catalogue.sort(key=lambda x: x['name']), a stable sort
RECURSIVE InsertByName(_, _)
InsertByName(x, s) ==
    IF s = <<>> THEN <<x>>
    ELSE IF StrLess(x.name, Head(s).name) THEN <<x>> \o s
    ELSE <<Head(s)>> \o InsertByName(x, Tail(s))

RECURSIVE SortByName(_)
SortByName(s) == IF s = <<>> THEN <<>> ELSE InsertByName(s[Len(s)], SortByName(Front(s)))

\* citadel_paint_scraper.generate_catalogue
citadel_generate_catalogue(scraped_data) == SortByName(CitadelAssemble(scraped_data, {}))

\* p3_paint_scraper.normalize_name: the title without the prefix
\* 'P3 Paints: ' or 'P3 Paints:', stripped
P3Prefix == <<"P", "3", " ", "P", "a", "i", "n", "t", "s", ":">>
p3_normalize_name(title) ==
    LET name == Strip(title)
    IN  IF IsPrefix(P3Prefix, name)
        THEN Strip(SubSeq(name, Len(P3Prefix) + 1, Len(name)))
        ELSE name

\* p3_paint_scraper.slugify: lower case, every run of characters other
\* than a-z and 0-9 made one '-', no '-' at either end
IsSlugChar(c) == IsDigit(c) \/ c \in {LowerOf[u] : u \in DOMAIN LowerOf} \cup {"i", "n"}

RECURSIVE Dashed(_, _)
Dashed(s, afterDash) ==
    IF s = <<>> THEN <<>>
    ELSE IF IsSlugChar(Head(s)) THEN <<Head(s)>> \o Dashed(Tail(s), FALSE)
    ELSE IF afterDash THEN Dashed(Tail(s), TRUE)
    ELSE <<"-">> \o Dashed(Tail(s), TRUE)

slugify(name) ==
    LET slug == Dashed(Lower(name), FALSE)
        inner == {i \in 1..Len(slug) : slug[i] # "-"}
    IN  IF inner = {} THEN <<>>
        ELSE SubSeq(slug, CHOOSE i \in inner : \A j \in inner : i <= j,
                          CHOOSE i \in inner : \A j \in inner : i >= j)

\* process_product with the id made of the SKU
process_product_sku_id(product) ==
    [brand |-> "P3",
     category |-> "",
     discontinued |-> FALSE,
     hex |-> IF Truthy(product.hex) THEN product.hex ELSE "",
     id |-> <<"p3-", product.sku>>,
     name |-> p3_normalize_name(product.title),
     range |-> "Formula P3",
     sku |-> product.sku,
     type |-> "opaque",
     url |-> <<"BASE_URL/products/", product.handle>>]

\* p3_paint_scraper.process_product of a paint that is neither a medium nor
\* a metallic; product.hex is what sampling its image returned
process_product(product) ==
    [brand |-> "P3",
     category |-> "",
     discontinued |-> FALSE,
     hex |-> IF Truthy(product.hex) THEN product.hex ELSE "",
     id |-> <<"p3-">> \o slugify(p3_normalize_name(product.title)),
     name |-> p3_normalize_name(product.title),
     range |-> "Formula P3",
     sku |-> product.sku,
     type |-> "opaque",
     url |-> <<"BASE_URL/products/", product.handle>>]

\* range_data['paints'].sort(key=lambda x: x['name'].lower()), a stable sort
RECURSIVE InsertByLowerName(_, _)
InsertByLowerName(x, s) ==
    IF s = <<>> THEN <<x>>
    ELSE IF StrLess(Lower(x.name), Lower(Head(s).name)) THEN <<x>> \o s
    ELSE <<Head(s)>> \o InsertByLowerName(x, Tail(s))

\* p3_paint_scraper.scrape_all, processing the products one after another:
\* the paints of the range 'standard'
RECURSIVE scrape_all(_)
scrape_all(paint_products) ==
    IF paint_products = <<>> THEN <<>>
    ELSE InsertByLowerName(process_product(paint_products[Len(paint_products)]),
                           scrape_all(Front(paint_products)))

(***************************************************************************)
(* Bitmap sampling.  An image is [ok, width, height, px]: ok is whether    *)
(* the fetch and the decoding succeeded, px the RGB pixel at <<x, y>>.     *)
(***************************************************************************)
\* "{:02X}" of a channel, and "#{:02X}{:02X}{:02X}" of a colour
HexDigits ==
    <<"0", "1", "2", "3", "4", "5", "6", "7", "8", "9", "A", "B", "C", "D", "E", "F">>
FormatHex(color) ==
    <<"#">> \o <<HexDigits[(color[1] \div 16) + 1], HexDigits[(color[1] % 16) + 1],
                 HexDigits[(color[2] \div 16) + 1], HexDigits[(color[2] % 16) + 1],
                 HexDigits[(color[3] \div 16) + 1], HexDigits[(color[3] % 16) + 1]>>

\* range(-reach, reach + 1, 2)
Offsets(reach) == [i \in 1..(reach + 1) |-> 2 * (i - 1) - reach]

\* the mean colour of the pixels at (x + dx, y + dy), clamped to the image,
\* each channel the floor of its mean
RegionMean(img, x, y, reach) ==
    LET offs == Offsets(reach)
        n == Len(offs)
        xs == [i \in 1..n |-> Max({0, Min({x + offs[i], img.width - 1})})]
        ys == [i \in 1..n |-> Max({0, Min({y + offs[i], img.height - 1})})]
        Column[i \in 1..n] ==
            LET Down[j \in 0..n] ==
                    IF j = 0 THEN <<0, 0, 0>>
                    ELSE LET c == img.px[<<xs[i], ys[j]>>]
                             t == Down[j - 1]
                         IN  <<t[1] + c[1], t[2] + c[2], t[3] + c[3]>>
            IN  Down[n]
        Total[i \in 0..n] ==
            IF i = 0 THEN <<0, 0, 0>>
            ELSE LET c == Column[i]
                     t == Total[i - 1]
                 IN  <<t[1] + c[1], t[2] + c[2], t[3] + c[3]>>
        sum == Total[n]
    IN  <<sum[1] \div (n * n), sum[2] \div (n * n), sum[3] \div (n * n)>>

\* the score of a mean colour, saturation * (1 - brightness_penalty * weight)
\* with the weight weight[1] / weight[2], in exact arithmetic: the fraction
\* <<numerator, denominator>> is the score times 381 * weight[2]
Score(color, weight) ==
    LET max_c == Max({color[1], color[2], color[3]})
        min_c == Min({color[1], color[2], color[3]})
        total == color[1] + color[2] + color[3]
        off == IF total >= 381 THEN total - 381 ELSE 381 - total
    IN  <<(max_c - min_c) * (381 * weight[2] - off * weight[1]), Max({max_c, 1})>>

\* if brightness > high or brightness < low: continue
OutsideGate_never(total, low, high) == FALSE

OutsideGate(total, low, high) == total > 3 * high \/ total < 3 * low

\* the loop over sample_regions: the first region of the highest score
\* among those whose brightness (r + g + b) / 3 is within [low, high]
RECURSIVE BestColor(_, _, _, _, _, _, _)
BestColor(img, regions, reach, low, high, weight, best) ==
    IF regions = <<>> THEN best
    ELSE LET color == RegionMean(img, Head(regions)[1], Head(regions)[2], reach)
             total == color[1] + color[2] + color[3]
             score == Score(color, weight)
             better == \/ ~best.found
                       \/ score[1] * best.score[2] > best.score[1] * score[2]
         IN  IF OutsideGate(total, low, high) \/ ~better
             THEN BestColor(img, Tail(regions), reach, low, high, weight, best)
             ELSE BestColor(img, Tail(regions), reach, low, high, weight,
                            [found |-> TRUE, score |-> score, color |-> color])

NoBest == [found |-> FALSE, score |-> <<0, 1>>, color |-> <<0, 0, 0>>]

\* sample_regions of ak_paint_scraper.sample_color_from_image
ak_sample_regions(range_hint, width, height) ==
    IF range_hint = "acrylic-wash"
    THEN <<<<245, 610>>, <<200, 580>>, <<280, 620>>, <<220, 550>>, <<260, 650>>>>
    ELSE IF range_hint = "deep-shades"
    THEN <<<<width \div 2, (4 * height) \div 5>>, <<width \div 2, (3 * height) \div 4>>,
           <<width \div 3, (4 * height) \div 5>>, <<(2 * width) \div 3, (4 * height) \div 5>>,
           <<width \div 2, (7 * height) \div 10>>>>
    ELSE IF range_hint = "playmarkers"
    THEN <<<<(4 * width) \div 5, height \div 2>>, <<(7 * width) \div 8, height \div 2>>,
           <<(4 * width) \div 5, (2 * height) \div 5>>, <<(7 * width) \div 8, (2 * height) \div 5>>,
           <<(4 * width) \div 5, (3 * height) \div 5>>, <<(7 * width) \div 8, (3 * height) \div 5>>>>
    ELSE IF range_hint = "rc-markers"
    THEN <<<<width \div 2, height \div 3>>, <<width \div 2, height \div 4>>,
           <<width \div 3, height \div 3>>, <<(2 * width) \div 3, height \div 3>>,
           <<width \div 2, height \div 2>>>>
    ELSE <<<<width \div 2, height \div 5>>, <<width \div 3, height \div 5>>,
           <<(2 * width) \div 3, height \div 5>>, <<width \div 2, height \div 4>>,
           <<width \div 3, height \div 4>>, <<(2 * width) \div 3, height \div 4>>,
           <<width \div 2, height \div 3>>, <<width \div 3, height \div 3>>,
           <<(2 * width) \div 3, height \div 3>>>>

\* the sampler returning None when no region passes the brightness gate
sample_color_from_image_gated(img, range_hint) ==
    IF ~img.ok THEN NoneStr
    ELSE LET best == BestColor(img, ak_sample_regions(range_hint, img.width, img.height),
                               5, 10, 245, <<1, 2>>, NoBest)
         IN  IF best.found THEN FormatHex(best.color) ELSE NoneStr

\* ak_paint_scraper.sample_color_from_image
sample_color_from_image(img, range_hint) ==
    IF ~img.ok THEN NoneStr
    ELSE LET best == BestColor(img, ak_sample_regions(range_hint, img.width, img.height),
                               5, 10, 245, <<1, 2>>, NoBest)
         IN  IF best.found THEN FormatHex(best.color)
             ELSE FormatHex(img.px[<<img.width \div 2, img.height \div 4>>])

\* sample_regions of reaper_paint_scraper.sample_color_from_image
reaper_sample_regions(width, height) ==
    <<<<(width * 40) \div 100, (height * 35) \div 100>>,
      <<(width * 50) \div 100, (height * 35) \div 100>>,
      <<(width * 60) \div 100, (height * 35) \div 100>>,
      <<(width * 45) \div 100, (height * 40) \div 100>>,
      <<(width * 55) \div 100, (height * 40) \div 100>>,
      <<(width * 50) \div 100, (height * 45) \div 100>>,
      <<(width * 50) \div 100, (height * 30) \div 100>>,
      <<(width * 45) \div 100, (height * 32) \div 100>>,
      <<(width * 55) \div 100, (height * 32) \div 100>>>>

\* reaper_paint_scraper.sample_color_from_image
reaper_sample_color_from_image(img) ==
    IF ~img.ok THEN NoneStr
    ELSE LET best == BestColor(img, reaper_sample_regions(img.width, img.height),
                               6, 15, 240, <<3, 10>>, NoBest)
         IN  IF best.found THEN FormatHex(best.color)
             ELSE FormatHex(img.px[<<(img.width * 50) \div 100, (img.height * 40) \div 100>>])

\* sample_regions of vallejo_paint_scraper.sample_color_from_image
vallejo_sample_regions(width, height) ==
    <<<<(width * 10) \div 100, (height * 50) \div 100>>,
      <<(width * 15) \div 100, (height * 50) \div 100>>,
      <<(width * 12) \div 100, (height * 45) \div 100>>,
      <<(width * 12) \div 100, (height * 55) \div 100>>,
      <<(width * 8) \div 100, (height * 48) \div 100>>,
      <<(width * 18) \div 100, (height * 52) \div 100>>,
      <<(width * 10) \div 100, (height * 40) \div 100>>,
      <<(width * 10) \div 100, (height * 60) \div 100>>>>

\* vallejo_paint_scraper.sample_color_from_image (the 0.1 it adds to every
\* score changes no comparison of scores)
vallejo_sample_color_from_image(img) ==
    IF ~img.ok THEN NoneStr
    ELSE LET best == BestColor(img, vallejo_sample_regions(img.width, img.height),
                               5, 10, 245, <<3, 10>>, NoBest)
         IN  IF best.found THEN FormatHex(best.color)
             ELSE FormatHex(img.px[<<(img.width * 12) \div 100, (img.height * 50) \div 100>>])

\* the records and products the assemblers are given
SKU_ak2 == <<"a", "k", "2">>
SKU_AK10 == <<"A", "K", "1", "0">>
NAME_Red_Real == <<"R", "e", "d", " ", "-", " ", "R", "e", "a", "l">>
URL_red == <<"/", "a", "/", "r", "e", "d", "/">>
URL_blue == <<"/", "a", "/", "b", "l", "u", "e", "/">>
URL_red_real == <<"/", "a", "/", "r", "e", "d", "-", "r", "e", "a", "l", "/">>

AkRawPool ==
    { [sku |-> SKU_AK2, title |-> NAME_Red_Real, hex |-> HEX_1, product_url |-> URL_red,
       category |-> "General", paint_type |-> "opaque"],
      [sku |-> SKU_ak2, title |-> NAME_Blue, hex |-> HEX_2, product_url |-> URL_blue,
       category |-> "Ink", paint_type |-> "ink"],
      [sku |-> SKU_AK10, title |-> NoneStr, hex |-> Absent, product_url |-> URL_red_real,
       category |-> "General", paint_type |-> "opaque"],
      [sku |-> SKU_AK2, title |-> NAME_Red, hex |-> None, product_url |-> NoneStr,
       category |-> "Wash", paint_type |-> "wash"],
      [sku |-> SKU_AK1, title |-> NAME_Blue, hex |-> HEX_2, product_url |-> URL_blue,
       category |-> "", paint_type |-> "opaque"],
      [sku |-> SKU_AK2, title |-> NAME_Blue, hex |-> HEX_2, product_url |-> URL_blue,
       category |-> "", paint_type |-> "ink"] }

SKU_09001 == <<"0", "9", "0", "0", "1">>
SKU_09002 == <<"0", "9", "0", "0", "2">>
NAME_RED == <<"R", "E", "D">>

ReaperRawPool ==
    { [sku |-> SKU_09002, name |-> NAME_RED, hex |-> HEX_1, range_name |-> "Core",
       paint_type |-> "opaque", product_url |-> "search/09002"],
      [sku |-> SKU_09001, name |-> NAME_Blue, hex |-> None, range_name |-> "Core",
       paint_type |-> "opaque", product_url |-> "search/09001"],
      [sku |-> SKU_09001, name |-> NAME_Red, hex |-> HEX_2, range_name |-> "Pathfinder",
       paint_type |-> "metallic", product_url |-> "search/09001"] }

SKU_MPA_2 == <<"M", "P", "A", "-", "2">>
SKU_mpa_2 == <<"m", "p", "a", "-", "2">>
SKU_MPA_10 == <<"M", "P", "A", "-", "1", "0">>
SKU_MPA_T1 == <<"M", "P", "A", "-", "T", "1">>

MonumentProductPool ==
    { [sku |-> SKU_MPA_2, hex |-> HEX_1, handle |-> "h1"],
      [sku |-> SKU_mpa_2, hex |-> HEX_2, handle |-> "h2"],
      [sku |-> SKU_MPA_10, hex |-> None, handle |-> "h3"],
      [sku |-> SKU_MPA_T1, hex |-> HEX_1, handle |-> "h4"] }

SKU_99_1 == <<"9", "9", "1", "8", "9", "9", "5", "0", "0", "0", "1">>
SKU_99_2 == <<"9", "9", "1", "8", "9", "9", "5", "0", "0", "0", "2">>
SKU_prod_99_2 == <<"p", "-">> \o SKU_99_2

CitadelRawPool ==
    { [sku |-> SKU_99_2, name |-> NAME_Blue, _hex |-> HEX_2, paintType |-> <<"Base">>,
       isAvailable |-> TRUE, slug |-> "blue"],
      [sku |-> SKU_99_1, name |-> NAME_Red, _hex |-> HEX_1, paintType |-> <<"Layer">>,
       isAvailable |-> TRUE, slug |-> "red"],
      [sku |-> SKU_prod_99_2, name |-> NAME_Red, _hex |-> Absent, paintType |-> <<>>,
       isAvailable |-> FALSE, slug |-> "red-2"],
      [sku |-> SKU_99_1, name |-> NAME_Blue, _hex |-> None, paintType |-> <<"Shade">>,
       isAvailable |-> TRUE, slug |-> "blue-1"] }

NAME_P3_Red == P3Prefix \o <<" ">> \o NAME_Red

\* individual paints of the standard range, as get_all_products lists them
P3ProductPool ==
    { [title |-> NAME_P3_Red, sku |-> "SFP3-N101-S", handle |-> "red", hex |-> HEX_1],
      [title |-> NAME_Blue, sku |-> "SFP3-N101-S", handle |-> "blue", hex |-> None],
      [title |-> NAME_Blue, sku |-> "SFP3-N102-S", handle |-> "blue-2", hex |-> HEX_2],
      [title |-> NAME_Red_bang, sku |-> "SFP3-N103-S", handle |-> "red-3", hex |-> HEX_1] }

(***************************************************************************)
(* The state: the catalogue files of the working directory, and what the   *)
(* last run read and reported.                                             *)
(***************************************************************************)
VARIABLES
    dir,        \* the catalogue files on disk, in directory order
    dirBefore,  \* the files as they were before the last run
    scraped,    \* the fresh records of the last merge run
    colors,     \* the colours of the last Monument update run
    op,         \* the runs so far, latest last: "batch", "monument"
    report,     \* what the last run counted and printed
    raw,        \* the records or products the last assembly was given
    catalogue,  \* the catalogue the last assembly returned
    pool        \* the tasks of a thread pool and the thread that waits for them

vars == <<dir, dirBefore, scraped, colors, op, report, raw, catalogue, pool>>

\* no thread pool at work
NoPool == <<>>

NoReport == [files |-> <<>>, total_updated |-> 0, total_sku_updated |-> 0,
             unmatched_scraped |-> <<>>, crashed_at |-> 0]

Init ==
    /\ dir \in { <<f1, f2>> : f1 \in SecondFiles, f2 \in FirstFiles }
    /\ dirBefore = dir
    /\ scraped = <<>>
    /\ colors = <<>>
    /\ op = <<>>
    /\ report = NoReport
    /\ pool = NoPool
    /\ raw = <<>>
    /\ catalogue = <<>>

\* batch_update_json_files(directory, scraped_data)
BatchUpdate(S) ==
    /\ Len(op) < MaxRuns
    /\ report' = BatchReport(UpdateFiles(dir, sku_to_data(S), name_to_data(S)), S)
    /\ dir' = FilesOf(report'.files)
    /\ dirBefore' = dir
    /\ scraped' = S
    /\ colors' = <<>>
    /\ op' = Append(op, "batch")
    /\ UNCHANGED <<raw, catalogue, pool>>

\* monument_hobbies_scraper.main with --update-all
MonumentUpdateAll(c) ==
    /\ Len(op) < MaxRuns
    /\ LET run == MonumentRun(dir, c, 1)
       IN  /\ dir' = run.dir
           /\ report' = [NoReport EXCEPT !.crashed_at = run.crashed_at]
    /\ dirBefore' = dir
    /\ scraped' = <<>>
    /\ colors' = c
    /\ op' = Append(op, "monument")
    /\ UNCHANGED <<raw, catalogue, pool>>

Next ==
    \/ \E S \in BSeq(FreshPool, MaxFresh) : BatchUpdate(S)
    \/ \E c \in MonumentColors : MonumentUpdateAll(c)

Spec == Init /\ [][Next]_vars

(***************************************************************************)
(* Catalogue generation: a run of --generate assembles a catalogue from    *)
(* what it scraped and writes it to a file of its own.                     *)
(***************************************************************************)
InitAsm ==
    /\ dir = <<>>
    /\ dirBefore = <<>>
    /\ scraped = <<>>
    /\ colors = <<>>
    /\ op = <<>>
    /\ report = NoReport
    /\ pool = NoPool
    /\ raw = <<>>
    /\ catalogue = <<>>

\* ak_paint_scraper.main with --generate
AkGenerate(S) ==
    /\ catalogue' = generate_catalogue(S, "3rd Generation")
    /\ raw' = S
    /\ op' = <<"ak_generate">>
    /\ UNCHANGED <<dir, dirBefore, scraped, colors, report, pool>>

\* reaper_paint_scraper.main with --generate
ReaperGenerate(S) ==
    /\ catalogue' = reaper_generate_catalogue(S, "Core")
    /\ raw' = S
    /\ op' = <<"reaper_generate">>
    /\ UNCHANGED <<dir, dirBefore, scraped, colors, report, pool>>

\* monument_hobbies_scraper.main with --generate: scrape_all_products,
\* scrape_colors_parallel, generate_catalogue
MonumentGenerate(P) ==
    /\ LET products == scrape_all_products(P, {})
       IN  catalogue' = monument_generate_catalogue(products, scrape_colors_parallel(products))
    /\ raw' = P
    /\ op' = <<"monument_generate">>
    /\ UNCHANGED <<dir, dirBefore, scraped, colors, report, pool>>

\* citadel_paint_scraper.main with --generate
CitadelGenerate(S) ==
    /\ catalogue' = citadel_generate_catalogue(S)
    /\ raw' = S
    /\ op' = <<"citadel_generate">>
    /\ UNCHANGED <<dir, dirBefore, scraped, colors, report, pool>>

\* p3_paint_scraper.main: scrape_all and the paints of its standard range
P3Generate(P) ==
    /\ catalogue' = scrape_all(P)
    /\ raw' = P
    /\ op' = <<"p3_generate">>
    /\ UNCHANGED <<dir, dirBefore, scraped, colors, report, pool>>

NextAsm ==
    \/ \E S \in BSeq(AkRawPool, MaxRaw) : AkGenerate(S)
    \/ \E S \in BSeq(ReaperRawPool, MaxRaw) : ReaperGenerate(S)
    \/ \E P \in BSeq(MonumentProductPool, MaxRaw) : MonumentGenerate(P)
    \/ \E S \in BSeq(CitadelRawPool, MaxRaw) : CitadelGenerate(S)
    \/ \E P \in BSeq(P3ProductPool, MaxRaw) : P3Generate(P)

SpecAsm == InitAsm /\ [][NextAsm]_vars

(***************************************************************************)
(* SKU normalization on its own: raw holds a SKU string, catalogue what a  *)
(* brand's normalize_sku made of it.                                       *)
(***************************************************************************)
MaxPieces == 3

\* what SKU strings are put together from
SkuPieces ==
    { <<" ">>, <<"\t">>, <<"a", "k">>, <<".">>, <<"-">>,
      <<"7", "6", "1", "0", "9">>, <<"1", "2", "3", "4", "5", "6">> }

RECURSIVE Flatten(_)
Flatten(pieces) == IF pieces = <<>> THEN <<>> ELSE Head(pieces) \o Flatten(Tail(pieces))

SkuInputs == {Flatten(pieces) : pieces \in BSeq(SkuPieces, MaxPieces)}

InitNorm ==
    /\ dir = <<>>
    /\ dirBefore = <<>>
    /\ scraped = <<>>
    /\ colors = <<>>
    /\ op = <<>>
    /\ report = NoReport
    /\ pool = NoPool
    /\ raw \in SkuInputs
    /\ catalogue = <<>>

\* one call of a brand's normalize_sku on the SKU string at hand
AkNormalizeSku ==
    /\ catalogue' = normalize_sku(raw)
    /\ op' = <<"ak_normalize_sku">>
    /\ UNCHANGED <<dir, dirBefore, scraped, colors, report, raw, pool>>

VallejoNormalizeSku ==
    /\ catalogue' = vallejo_normalize_sku(raw)
    /\ op' = <<"vallejo_normalize_sku">>
    /\ UNCHANGED <<dir, dirBefore, scraped, colors, report, raw, pool>>

CitadelNormalizeSku ==
    /\ catalogue' = citadel_normalize_sku(raw)
    /\ op' = <<"citadel_normalize_sku">>
    /\ UNCHANGED <<dir, dirBefore, scraped, colors, report, raw, pool>>

NextNorm == AkNormalizeSku \/ VallejoNormalizeSku \/ CitadelNormalizeSku

SpecNorm == InitNorm /\ [][NextNorm]_vars

(***************************************************************************)
(* Bitmap sampling on its own: raw holds the image behind a paint's        *)
(* img_url, scraped the range hint of the call, catalogue what             *)
(* sample_color_from_image returned.                                       *)
(***************************************************************************)
MaxWidth == 2
MaxHeight == 3

WHITE == <<254, 254, 254>>
BLACK == <<0, 0, 0>>
RED == <<200, 30, 30>>
Colors == {WHITE, BLACK, RED}

\* an image that could not be fetched or decoded
FailedImage == [ok |-> FALSE, width |-> 0, height |-> 0, px |-> <<>>]

Images ==
    UNION { { [ok |-> TRUE, width |-> w, height |-> h, px |-> f] :
                f \in [(0..(w - 1)) \X (0..(h - 1)) -> Colors] } :
            w \in 1..MaxWidth, h \in 1..MaxHeight }

RangeHints == {"", "acrylic-wash", "deep-shades", "playmarkers", "rc-markers"}

InitSample ==
    /\ dir = <<>>
    /\ dirBefore = <<>>
    /\ scraped = <<>>
    /\ colors = <<>>
    /\ op = <<>>
    /\ report = NoReport
    /\ pool = NoPool
    /\ raw \in Images \cup {FailedImage}
    /\ catalogue = <<>>

\* one call of ak_paint_scraper.sample_color_from_image
AkSample(range_hint) ==
    /\ op = <<>>
    /\ catalogue' = sample_color_from_image(raw, range_hint)
    /\ scraped' = <<range_hint>>
    /\ op' = <<"ak_sample">>
    /\ UNCHANGED <<dir, dirBefore, colors, report, raw, pool>>

\* one call of reaper_paint_scraper.sample_color_from_image
ReaperSample ==
    /\ op = <<>>
    /\ catalogue' = reaper_sample_color_from_image(raw)
    /\ scraped' = <<>>
    /\ op' = <<"reaper_sample">>
    /\ UNCHANGED <<dir, dirBefore, colors, report, raw, pool>>

\* one call of vallejo_paint_scraper.sample_color_from_image
VallejoSample ==
    /\ op = <<>>
    /\ catalogue' = vallejo_sample_color_from_image(raw)
    /\ scraped' = <<>>
    /\ op' = <<"vallejo_sample">>
    /\ UNCHANGED <<dir, dirBefore, colors, report, raw, pool>>

NextSample ==
    \/ \E range_hint \in RangeHints : AkSample(range_hint)
    \/ ReaperSample
    \/ VallejoSample

SpecSample == InitSample /\ [][NextSample]_vars

(***************************************************************************)
(* The sampling batch of scrape_color_range: the paints of one page are    *)
(* submitted to a thread pool, one sample_paint_color task each.  raw      *)
(* holds the paints as extracted, scraped the same paints as the tasks     *)
(* change them, catalogue what the page adds to all_paints; colors[i] is   *)
(* what sample_color_from_image returns of the image of paint i.           *)
(*   pool.task[i]  "queued", "running" or "done"                           *)
(*   pool.yielded  the tasks as_completed has yielded, in order            *)
(*   pool.main     "collecting" in the as_completed loop, then "returned"  *)
(***************************************************************************)
MaxTasks == 3
MaxWorkers == 2

Pixel(c) == [ok |-> TRUE, width |-> 1, height |-> 1, px |-> (<<0, 0>> :> c)]

\* a paint without the key 'hex', where a hex is held as characters
NoHex == <<Absent>>

\* the paints extract_paints_from_page finds on a page of the range 'afv',
\* img the image behind img_url
PagePaintPool ==
    { [sku |-> SKU_AK1, title |-> NAME_Red, img_url |-> "u1", img |-> Pixel(RED),
       product_url |-> URL_red, hex |-> NoHex],
      [sku |-> SKU_AK2, title |-> NAME_Blue, img_url |-> "u2", img |-> FailedImage,
       product_url |-> URL_blue, hex |-> NoHex],
      [sku |-> SKU_AK9, title |-> NAME_Red_Real, img_url |-> "u3", img |-> Pixel(WHITE),
       product_url |-> URL_red_real, hex |-> NoHex],
      [sku |-> SKU_AK10, title |-> NAME_Blue, img_url |-> None, img |-> FailedImage,
       product_url |-> URL_blue, hex |-> NoHex] }

\* paint['hex'] = ... of every paint of the batch
StoreHex_all(paints, i, hex) == [j \in 1..Len(paints) |-> [paints[j] EXCEPT !.hex = hex]]

\* paint['hex'] = ... of the paint of task i
StoreHex(paints, i, hex) == [paints EXCEPT ![i].hex = hex]

\* ak_paint_scraper.sample_paint_color of the paint of task i, sampled
\* being what sample_color_from_image returns of the image behind img_url
sample_paint_color(paints, i, sampled) ==
    IF Truthy(paints[i].img_url) THEN StoreHex(paints, i, sampled) ELSE paints

InitBatch ==
    /\ dir = <<>>
    /\ dirBefore = <<>>
    /\ op = <<>>
    /\ report = NoReport
    /\ raw \in BSeq(PagePaintPool, MaxTasks) \ {<<>>}
    /\ colors = [i \in 1..Len(raw) |-> sample_color_from_image(raw[i].img, "afv")]
    /\ scraped = raw
    /\ catalogue = <<>>
    /\ pool = [task |-> [i \in 1..Len(raw) |-> "queued"], yielded |-> <<>>,
               main |-> "collecting"]

Running == {i \in 1..Len(pool.task) : pool.task[i] = "running"}

\* a free worker takes the task that has waited longest
StartTask(i) ==
    /\ pool.task[i] = "queued"
    /\ \A j \in 1..(i - 1) : pool.task[j] # "queued"
    /\ Cardinality(Running) < MaxWorkers
    /\ pool' = [pool EXCEPT !.task[i] = "running"]
    /\ UNCHANGED <<dir, dirBefore, scraped, colors, op, report, raw, catalogue>>

\* the worker's sample_paint_color returns
FinishTask(i) ==
    /\ pool.task[i] = "running"
    /\ scraped' = sample_paint_color(scraped, i, colors[i])
    /\ pool' = [pool EXCEPT !.task[i] = "done"]
    /\ UNCHANGED <<dir, dirBefore, colors, op, report, raw, catalogue>>

\* as_completed yields a finished future, future.result() returns its paint
YieldTask(i) ==
    /\ pool.main = "collecting"
    /\ pool.task[i] = "done"
    /\ \A k \in 1..Len(pool.yielded) : pool.yielded[k] # i
    /\ pool' = [pool EXCEPT !.yielded = Append(@, i)]
    /\ op' = Append(op, "yield")
    /\ UNCHANGED <<dir, dirBefore, scraped, colors, report, raw, catalogue>>

\* every future yielded, the executor shut down: the paints get the
\* category and the type of the range (no title of the model holds a
\* keyword of get_paint_type) and are added to all_paints
ReturnBatch ==
    /\ pool.main = "collecting"
    /\ Len(pool.yielded) = Len(pool.task)
    /\ \A i \in 1..Len(pool.task) : pool.task[i] = "done"
    /\ catalogue' = [i \in 1..Len(scraped) |->
                       scraped[i] @@ [category |-> "AFV", paint_type |-> "opaque"]]
    /\ pool' = [pool EXCEPT !.main = "returned"]
    /\ op' = Append(op, "return")
    /\ UNCHANGED <<dir, dirBefore, scraped, colors, report, raw>>

NextBatch ==
    \/ \E i \in 1..Len(pool.task) : StartTask(i)
    \/ \E i \in 1..Len(pool.task) : FinishTask(i)
    \/ \E i \in 1..Len(pool.task) : YieldTask(i)
    \/ ReturnBatch

SpecBatch == InitBatch /\ [][NextBatch]_vars

\* the threads of the pool and the collecting thread keep running
SpecBatchFair == SpecBatch /\ WF_vars(NextBatch)

(***************************************************************************)
(* scrape_all_ranges and the --generate of main that follows it.  raw[i]   *)
(* holds what scrape_color_range returns of range i, the pages fetched     *)
(* being given; scraped is all_data, a dict in insertion order; catalogue  *)
(* the catalogue files written.                                            *)
(*   pool.range_workers  the argument range_workers                        *)
(*   pool.task[i]        "queued", "running" or "done"                     *)
(*   pool.main           "scraping", "crossed_in_branch", "crossed",       *)
(*                       "persisted"                                       *)
(***************************************************************************)
MaxRangeWorkers == 2

\* four of the keys of COLOR_RANGES, in its order
RangeKeys == <<"afv", "air", "real-colors", "rc-markers">>
RangeNames == <<"AFV", "AIR", "Real Colors", "Real Colors Markers">>

\* RANGE_TO_FILE
RangeFiles ==
    <<"ak_3gen.json", "ak_3gen.json", "ak_real_colors.json", "ak_real_colors_markers.json">>

\* what the pages of a range may hold: one product is listed under AFV and
\* under AIR, the image of the marker cannot be sampled
RangePaintPool ==
    << { <<[sku |-> SKU_AK2, title |-> NAME_Red, hex |-> HEX_1, product_url |-> URL_red,
            category |-> "AFV", paint_type |-> "opaque"]>>,
         <<[sku |-> SKU_AK1, title |-> NAME_Blue, hex |-> HEX_2, product_url |-> URL_blue,
            category |-> "AFV", paint_type |-> "opaque"]>> },
       { <<>>,
         <<[sku |-> SKU_AK2, title |-> NAME_Red, hex |-> HEX_1, product_url |-> URL_red,
            category |-> "AIR", paint_type |-> "air"]>> },
       { <<>>,
         <<[sku |-> SKU_AK9, title |-> NAME_Red, hex |-> HEX_2,
            product_url |-> URL_red_real, category |-> "", paint_type |-> "opaque"]>> },
       { <<>>,
         <<[sku |-> SKU_AK10, title |-> NAME_Red, hex |-> None, product_url |-> URL_red,
            category |-> "", paint_type |-> "opaque"]>> } >>

\* all_data[range_key] = {'name': ..., 'paints': paints}
Assigned(all_data, i, paints) ==
    Append(all_data, [key |-> RangeKeys[i], name |-> RangeNames[i], paints |-> paints])

\* the position of a key in all_data, 0 when it is not in it
IndexOf(all_data, key) ==
    LET at == {k \in 1..Len(all_data) : all_data[k].key = key}
    IN  IF at = {} THEN 0 ELSE CHOOSE k \in at : TRUE

\* the name cross_reference_rc_markers looks a paint up by
CrossName(paint) ==
    LET title == IF TruthyStr(paint.title) THEN paint.title ELSE <<>>
    IN  Lower(clean_paint_name(Strip(Lower(title))))

\* ak_paint_scraper.cross_reference_rc_markers: a marker without a hex
\* takes the hex of the Real Colors paint of its name, the last of them
cross_reference_rc_markers(marker_paints, real_colors_paints) ==
    LET named(name) == {k \in 1..Len(real_colors_paints) :
                          /\ CrossName(real_colors_paints[k]) = name
                          /\ name # <<>>
                          /\ Truthy(GetOr(real_colors_paints[k].hex, None))}
    IN  [m \in 1..Len(marker_paints) |->
           LET marker == marker_paints[m]
               found == named(CrossName(marker))
           IN  IF ~Truthy(GetOr(marker.hex, None)) /\ found # {}
               THEN [marker EXCEPT !.hex = real_colors_paints[Max(found)].hex]
               ELSE marker]

\* if 'rc-markers' in all_data and 'real-colors' in all_data:
\*     cross_reference_rc_markers(...)
CrossReferenced(all_data) ==
    LET markers == IndexOf(all_data, "rc-markers")
        colours == IndexOf(all_data, "real-colors")
    IN  IF markers = 0 \/ colours = 0 THEN all_data
        ELSE [all_data EXCEPT ![markers].paints =
                cross_reference_rc_markers(@, all_data[colours].paints)]

\* file_paints[output_file] of main: the paints of the ranges of a file, in
\* the order of all_data
RECURSIVE file_paints(_, _)
file_paints(all_data, filename) ==
    IF all_data = <<>> THEN <<>>
    ELSE (IF \E i \in 1..Len(RangeKeys) :
                RangeKeys[i] = Head(all_data).key /\ RangeFiles[i] = filename
          THEN Head(all_data).paints ELSE <<>>)
         \o file_paints(Tail(all_data), filename)

\* the range name main gives generate_catalogue for a file
FileRangeName(all_data, filename) ==
    IF filename = "ak_3gen.json" THEN "3rd Generation"
    ELSE LET first == {k \in 1..Len(all_data) :
                         /\ all_data[k].paints # <<>>
                         /\ \E i \in 1..Len(RangeKeys) :
                              RangeKeys[i] = all_data[k].key /\ RangeFiles[i] = filename}
         IN  IF first = {} THEN "" ELSE all_data[Min(first)].name

\* the files main writes with --generate, each with its catalogue
GeneratedFiles(all_data) ==
    [filename \in {RangeFiles[i] : i \in {j \in 1..Len(RangeKeys) :
                                              IndexOf(all_data, RangeKeys[j]) # 0}} |->
       generate_catalogue(file_paints(all_data, filename), FileRangeName(all_data, filename))]

InitRanges ==
    /\ dir = <<>>
    /\ dirBefore = <<>>
    /\ colors = <<>>
    /\ op = <<>>
    /\ report = NoReport
    /\ raw \in {r \in [1..Len(RangeKeys) -> UNION {RangePaintPool[i] : i \in 1..Len(RangeKeys)}] :
                  \A i \in 1..Len(RangeKeys) : r[i] \in RangePaintPool[i]}
    /\ scraped = <<>>
    /\ catalogue = <<>>
    /\ \E range_workers \in 1..MaxRangeWorkers :
         pool = [range_workers |-> range_workers,
                 task |-> [i \in 1..Len(RangeKeys) |-> "queued"],
                 main |-> "scraping"]

\* range_workers = 1: main scrapes the next range itself
ScrapeNext(i) ==
    /\ pool.main = "scraping" /\ pool.range_workers = 1
    /\ pool.task[i] = "queued"
    /\ \A j \in 1..(i - 1) : pool.task[j] = "done"
    /\ scraped' = Assigned(scraped, i, raw[i])
    /\ pool' = [pool EXCEPT !.task[i] = "done"]
    /\ op' = Append(op, "scrape")
    /\ UNCHANGED <<dir, dirBefore, colors, report, raw, catalogue>>

\* range_workers > 1: a free worker takes the range that has waited longest
StartRange(i) ==
    /\ pool.main = "scraping" /\ pool.range_workers > 1
    /\ pool.task[i] = "queued"
    /\ \A j \in 1..(i - 1) : pool.task[j] # "queued"
    /\ Cardinality({j \in 1..Len(pool.task) : pool.task[j] = "running"}) < pool.range_workers
    /\ pool' = [pool EXCEPT !.task[i] = "running"]
    /\ UNCHANGED <<dir, dirBefore, scraped, colors, op, report, raw, catalogue>>

\* the worker's scrape_color_range returns
FinishRange(i) ==
    /\ pool.task[i] = "running"
    /\ pool' = [pool EXCEPT !.task[i] = "done"]
    /\ UNCHANGED <<dir, dirBefore, scraped, colors, op, report, raw, catalogue>>

\* as_completed yields a finished future: all_data[range_key] = ...
YieldRange(i) ==
    /\ pool.main = "scraping" /\ pool.range_workers > 1
    /\ pool.task[i] = "done"
    /\ IndexOf(scraped, RangeKeys[i]) = 0
    /\ scraped' = Assigned(scraped, i, raw[i])
    /\ op' = Append(op, "yield")
    /\ UNCHANGED <<dir, dirBefore, colors, report, raw, catalogue, pool>>

\* the loop that fills all_data has nothing left to wait for
LoopDone_early(all_data) ==
    IndexOf(all_data, "rc-markers") # 0 /\ IndexOf(all_data, "real-colors") # 0

LoopDone(all_data) == Len(all_data) = Len(RangeKeys)

\* range_workers > 1: the call of cross_reference_rc_markers after the
\* with block
CrossReferenceInBranch ==
    /\ pool.main = "scraping" /\ pool.range_workers > 1
    /\ LoopDone(scraped)
    /\ scraped' = CrossReferenced(scraped)
    /\ pool' = [pool EXCEPT !.main = "crossed_in_branch"]
    /\ op' = Append(op, "cross_reference")
    /\ UNCHANGED <<dir, dirBefore, colors, report, raw, catalogue>>

\* the call of cross_reference_rc_markers that ends scrape_all_ranges
CrossReference ==
    /\ \/ pool.main = "crossed_in_branch"
       \/ pool.main = "scraping" /\ pool.range_workers = 1 /\ LoopDone(scraped)
    /\ scraped' = CrossReferenced(scraped)
    /\ pool' = [pool EXCEPT !.main = "crossed"]
    /\ op' = Append(op, "cross_reference")
    /\ UNCHANGED <<dir, dirBefore, colors, report, raw, catalogue>>

\* main with --generate: one catalogue file per output file
GenerateFiles ==
    /\ pool.main = "crossed"
    /\ catalogue' = GeneratedFiles(scraped)
    /\ pool' = [pool EXCEPT !.main = "persisted"]
    /\ op' = Append(op, "generate")
    /\ UNCHANGED <<dir, dirBefore, scraped, colors, report, raw>>

NextRanges ==
    \/ \E i \in 1..Len(RangeKeys) : ScrapeNext(i)
    \/ \E i \in 1..Len(RangeKeys) : StartRange(i)
    \/ \E i \in 1..Len(RangeKeys) : FinishRange(i)
    \/ \E i \in 1..Len(RangeKeys) : YieldRange(i)
    \/ CrossReferenceInBranch
    \/ CrossReference
    \/ GenerateFiles

SpecRanges == InitRanges /\ [][NextRanges]_vars

(***************************************************************************)
(* The product filters on their own: raw holds a product as a page gives   *)
(* it, scraped the set SKUs of _SET_SKUS_CACHE, catalogue what the filter  *)
(* of a brand answered.                                                    *)
(***************************************************************************)
\* the alternatives of r'^(AK\d+|RCS\d+|RCM\d+|RC\d+|AKM\d+)$', in order
SkuPrefixes == << <<"A", "K">>, <<"R", "C", "S">>, <<"R", "C", "M">>, <<"R", "C">>,
                  <<"A", "K", "M">> >>

\* one alternative of the pattern: the prefix, then \d+ up to the end
MatchesAlternative(prefix, sku) ==
    /\ IsPrefix(prefix, sku)
    /\ AllDigits(SubSeq(sku, Len(prefix) + 1, Len(sku)))

\* re.match(r'^(AK\d+|RCS\d+|RCM\d+|RC\d+|AKM\d+)$', sku, re.IGNORECASE)
MatchesSkuPattern(sku) ==
    \E a \in 1..Len(SkuPrefixes) : MatchesAlternative(SkuPrefixes[a], Upper(sku))

\* ak_paint_scraper.is_set_sku
is_set_sku_never(sku, set_skus_cache) == FALSE

is_set_sku(sku, set_skus_cache) ==
    IF sku = <<>> THEN FALSE ELSE Upper(sku) \in set_skus_cache

\* ak_paint_scraper.is_paint_product
is_paint_product(paint, set_skus_cache) ==
    LET sku == Upper(IF TruthyStr(paint.sku) THEN paint.sku ELSE <<>>)
    IN  IF ~MatchesSkuPattern(sku) THEN FALSE
        ELSE IF is_set_sku(sku, set_skus_cache) THEN FALSE
        ELSE TRUE

\* vallejo_paint_scraper.EXCLUDE_KEYWORDS
EXCLUDE_KEYWORDS ==
    { <<"b", "r", "u", "s", "h">>,
      <<"p", "i", "n", "c", "e", "l">>,
      <<"g", "u", "i", "d", "e">>,
      <<"g", "u", "í", "a">>,
      <<"c", "l", "e", "a", "n", "e", "r">>,
      <<"l", "i", "m", "p", "i", "a", "d", "o", "r">>,
      <<" ", "s", "e", "t">>,
      <<"p", "a", "c", "k">>,
      <<"b", "u", "n", "d", "l", "e">>,
      <<"k", "i", "t">>,
      <<"b", "o", "o", "k">>,
      <<"m", "a", "g", "a", "z", "i", "n", "e">>,
      <<"r", "e", "v", "i", "s", "t", "a">>,
      <<"f", "u", "l", "l", " ", "r", "a", "n", "g", "e">>,
      <<"c", "o", "m", "b", "o">>,
      <<"c", "o", "l", "l", "e", "c", "t", "i", "o", "n">>,
      <<"c", "o", "l", "e", "c", "c", "i", "ó", "n">>,
      <<"c", "o", "l", "o", "r", "s", " ", "s", "e", "t">>,
      <<"c", "o", "l", "o", "u", "r", "s", " ", "s", "e", "t">>,
      <<"p", "a", "i", "n", "t", " ", "s", "e", "t">>,
      <<"c", "o", "l", "o", "r", " ", "s", "e", "t">>,
      <<"c", "o", "l", "o", "u", "r", " ", "s", "e", "t">>,
      <<"r", "a", "n", "g", "e", " ", "b", "o", "x">>,
      <<"c", "a", "s", "e">>,
      <<"s", "u", "i", "t", "c", "a", "s", "e">>,
      <<"m", "a", "l", "e", "t", "a">>,
      <<"a", "l", "l", " ", "c", "o", "l", "o", "r", "s">>,
      <<"a", "l", "l", " ", "c", "o", "l", "o", "u", "r", "s">>,
      <<"c", "o", "m", "p", "l", "e", "t", "e", " ", "r", "a", "n", "g", "e">>,
      <<"s", "u", "p", "e", "r", " ", "p", "a", "c", "k">>,
      <<"d", "i", "s", "p", "l", "a", "y">>,
      <<"e", "x", "p", "o", "s", "i", "t", "o", "r">>,
      <<"s", "t", "a", "n", "d">>,
      <<"r", "a", "c", "k">>,
      <<"a", "i", "r", "b", "r", "u", "s", "h">>,
      <<"a", "e", "r", "ó", "g", "r", "a", "f", "o">>,
      <<"c", "o", "m", "p", "r", "e", "s", "s", "o", "r">>,
      <<"s", "t", "e", "n", "c", "i", "l">>,
      <<"p", "l", "a", "n", "t", "i", "l", "l", "a">>,
      <<"t", "o", "o", "l">>,
      <<"h", "e", "r", "r", "a", "m", "i", "e", "n", "t", "a">>,
      <<"k", "n", "i", "f", "e">>,
      <<"c", "u", "t", "t", "e", "r">>,
      <<"t", "w", "e", "e", "z", "e", "r">>,
      <<"p", "i", "n", "z", "a">>,
      <<"s", "c", "e", "n", "e", "r", "y">>,
      <<"s", "c", "e", "n", "i", "c", "s">>,
      <<"g", "r", "a", "s", "s">>,
      <<"h", "i", "e", "r", "b", "a">>,
      <<"f", "l", "o", "c", "k">>,
      <<"t", "u", "f", "t">> }

\* vallejo_paint_scraper.is_paint_product
vallejo_is_paint_product(paint) ==
    LET title == Lower(IF TruthyStr(paint.title) THEN paint.title ELSE <<>>)
        url == Lower(IF TruthyStr(paint.product_url) THEN paint.product_url ELSE <<>>)
    IN  ~\E keyword \in EXCLUDE_KEYWORDS : Contains(title, keyword) \/ Contains(url, keyword)

\* reaper_paint_scraper.INDIVIDUAL_PAINT_PREFIXES, MAX_INDIVIDUAL_PAINT_PRICE
INDIVIDUAL_PAINT_PREFIXES == { <<"0", "9">>, <<"8", "9">> }
MAX_INDIVIDUAL_PAINT_PRICE == 500

\* the exclude_keywords of reaper_paint_scraper.is_individual_paint
exclude_keywords ==
    { <<"s", "e", "t">>,
      <<"k", "i", "t">>,
      <<"p", "a", "c", "k">>,
      <<"t", "r", "i", "a", "d">>,
      <<"c", "o", "l", "l", "e", "c", "t", "i", "o", "n">>,
      <<"c", "o", "l", "o", "r", "s", " ", "o", "f">> }

\* reaper_paint_scraper.is_individual_paint
is_individual_paint(paint) ==
    LET name == Lower(paint.name)
    IN  IF ~\E prefix \in INDIVIDUAL_PAINT_PREFIXES : IsPrefix(prefix, paint.sku) THEN FALSE
        ELSE IF ~(Len(paint.sku) = 5 /\ AllDigits(paint.sku)) THEN FALSE
        ELSE IF paint.price > MAX_INDIVIDUAL_PAINT_PRICE THEN FALSE
        ELSE IF \E kw \in exclude_keywords : Contains(name, kw) THEN FALSE
        ELSE TRUE

\* what the SKUs of products are put together from
FilterSkuPieces ==
    { <<"A", "K">>, <<"a", "k">>, <<"R", "C">>, <<"S">>, <<"M">>, <<"X">>,
      <<"1", "1", "1", "2", "6">>, <<"2">>, <<"-", "S", "E", "T">>,
      <<"0", "9">>, <<"0", "0", "1">> }

FilterSkus == {Flatten(pieces) : pieces \in BSeq(FilterSkuPieces, MaxPieces)}

SKU_AK11126 == <<"A", "K", "1", "1", "1", "2", "6">>
SKU_AK11126_SET == SKU_AK11126 \o <<"-", "S", "E", "T">>
NAME_Wood_Brown == <<"W", "o", "o", "d", " ", "B", "r", "o", "w", "n">>
NAME_Starter_Set == <<"S", "t", "a", "r", "t", "e", "r", " ", "S", "e", "t">>
NAME_BRUSH == <<"B", "R", "U", "S", "H">>
URL_wood == <<"/", "p", "/", "w", "o", "o", "d", "/">>
URL_Pack == <<"/", "p", "/", "P", "a", "c", "k", "-", "1", "/">>

FilterNames == {NAME_Wood_Brown, NAME_Starter_Set, NAME_BRUSH}
FilterUrls == {URL_wood, URL_Pack}
FilterPrices == {389, 1500}

\* the SKUs fetch_sets_from_url may put into the cache: upper-case, of the
\* pattern
SetSkuPool == {sku \in FilterSkus : sku = Upper(sku) /\ MatchesSkuPattern(sku) /\ Len(sku) <= 3}

InitFilter ==
    /\ dir = <<>>
    /\ dirBefore = <<>>
    /\ colors = <<>>
    /\ op = <<>>
    /\ report = NoReport
    /\ pool = NoPool
    /\ \E sku \in FilterSkus, name \in FilterNames, url \in FilterUrls, price \in FilterPrices :
         raw = [sku |-> sku, title |-> name, name |-> name, product_url |-> url,
                price |-> price]
    /\ scraped \in SUBSET SetSkuPool
    /\ catalogue = <<>>

\* one call of a brand's filter on the product at hand
AkIsPaintProduct ==
    /\ catalogue' = <<is_paint_product(raw, scraped)>>
    /\ op' = <<"ak_is_paint_product">>
    /\ UNCHANGED <<dir, dirBefore, scraped, colors, report, raw, pool>>

VallejoIsPaintProduct ==
    /\ catalogue' = <<vallejo_is_paint_product(raw)>>
    /\ op' = <<"vallejo_is_paint_product">>
    /\ UNCHANGED <<dir, dirBefore, scraped, colors, report, raw, pool>>

ReaperIsIndividualPaint ==
    /\ catalogue' = <<is_individual_paint(raw)>>
    /\ op' = <<"reaper_is_individual_paint">>
    /\ UNCHANGED <<dir, dirBefore, scraped, colors, report, raw, pool>>

NextFilter == AkIsPaintProduct \/ VallejoIsPaintProduct \/ ReaperIsIndividualPaint

SpecFilter == InitFilter /\ [][NextFilter]_vars

(***************************************************************************)
(* fetch_set_skus over the life of the cache file: dir holds the cache     *)
(* file SET_SKUS_CACHE_FILE (<<>> when there is none), scraped the set     *)
(* _SET_SKUS_CACHE of the running process, op the last call, pool the      *)
(* clock and the number of calls made.                                     *)
(***************************************************************************)
MaxCalls == 3
MaxTicks == 4
HalfDay == 43200

\* if cache_age < 86400:  # 24 hours
CACHE_MAX_AGE == 86400

CacheFresh_le(cache_age) == cache_age <= CACHE_MAX_AGE

CacheFresh(cache_age) == cache_age < CACHE_MAX_AGE

\* what the set listings of the site may hold when they are fetched; {}
\* also stands for a site that cannot be reached
NetworkSets == {{}, {SKU_AK2}, {SKU_AK2, SKU_AK9}}

\* the file a run finds: none, one json.load cannot read, or one an
\* earlier run wrote
CacheFiles ==
    {<<>>} \cup {<<[mtime |-> 0, readable |-> FALSE, skus |-> {}]>>}
           \cup {<<[mtime |-> 0, readable |-> TRUE, skus |-> skus]>> : skus \in NetworkSets \ {{}}}

\* the cache file is there, json.load reads it and it is younger than 24
\* hours
LoadsFromFile(file, now, force_refresh) ==
    /\ file # <<>> /\ ~force_refresh
    /\ CacheFresh(now - file[1].mtime)
    /\ file[1].readable

\* json.dump(list(all_set_skus), f), when there is something to write and
\* the file can be written
Saved(file, now, all_set_skus, writable) ==
    IF all_set_skus # {} /\ writable
    THEN <<[mtime |-> now, readable |-> TRUE, skus |-> all_set_skus]>>
    ELSE file

InitCache ==
    /\ dir \in CacheFiles
    /\ dirBefore = <<>>
    /\ scraped = {}
    /\ colors = <<>>
    /\ op = <<>>
    /\ report = NoReport
    /\ raw = <<>>
    /\ catalogue = <<>>
    /\ pool = [now |-> 0, calls |-> 0]

\* ak_paint_scraper.fetch_set_skus(force_refresh); all_set_skus is what
\* the site would give, writable whether the cache file can be written
FetchSetSkus(force_refresh, all_set_skus, writable) ==
    /\ pool.calls < MaxCalls
    /\ pool' = [pool EXCEPT !.calls = @ + 1]
    /\ dirBefore' = dir
    /\ IF scraped # {} /\ ~force_refresh
       THEN /\ op' = <<[force_refresh |-> force_refresh, fetched |-> FALSE,
                        returned |-> scraped]>>
            /\ UNCHANGED <<dir, scraped>>
       ELSE IF LoadsFromFile(dir, pool.now, force_refresh)
       THEN /\ scraped' = dir[1].skus
            /\ op' = <<[force_refresh |-> force_refresh, fetched |-> FALSE,
                        returned |-> dir[1].skus]>>
            /\ UNCHANGED dir
       ELSE /\ dir' = Saved(dir, pool.now, all_set_skus, writable)
            /\ scraped' = all_set_skus
            /\ op' = <<[force_refresh |-> force_refresh, fetched |-> TRUE,
                        returned |-> all_set_skus]>>
    /\ UNCHANGED <<colors, report, raw, catalogue>>

\* half a day passes
Tick ==
    /\ pool.now < MaxTicks * HalfDay
    /\ pool' = [pool EXCEPT !.now = @ + HalfDay]
    /\ UNCHANGED <<dir, dirBefore, scraped, colors, op, report, raw, catalogue>>

\* the process ends and the scraper is started again: _SET_SKUS_CACHE = set()
Restart ==
    /\ scraped # {}
    /\ scraped' = {}
    /\ UNCHANGED <<dir, dirBefore, colors, op, report, raw, catalogue, pool>>

NextCache ==
    \/ \E force_refresh \in BOOLEAN, all_set_skus \in NetworkSets, writable \in BOOLEAN :
         FetchSetSkus(force_refresh, all_set_skus, writable)
    \/ Tick
    \/ Restart

SpecCache == InitCache /\ [][NextCache]_vars

(***************************************************************************)
(* The paginated scrape of one range, without colour sampling: raw holds   *)
(* the site, scraped is all_paints, op the pages fetched so far with what  *)
(* each gave, catalogue what the scrape returned.                          *)
(*   pool.brand   "ak" (scrape_color_range) or "vallejo" (scrape_range)    *)
(*   pool.page    the number of the page to fetch next                     *)
(*   pool.main    "scraping" or "returned"                                 *)
(***************************************************************************)
MaxSitePages == 2
MaxVallejoPages == 4

\* while page <= 50:  # Safety limit
PAGE_LIMIT == 50

\* mutant: the loop has no safety limit
WithinLimit_unbounded(page) == TRUE

\* the condition of the loop: while page <= 50, while page <= max_pages
WithinLimit(page) == page <= PAGE_LIMIT

\* the products a page may list: a paint and a set
PageItemPool ==
    { [sku |-> SKU_AK1, title |-> NAME_Red, product_url |-> URL_red],
      [sku |-> SKU_AK11126_SET, title |-> NAME_Starter_Set, product_url |-> URL_Pack] }

\* a page that cannot be fetched: fetch_page raises
ErrorPage == [error |-> TRUE, items |-> <<>>, has_next |-> FALSE]

SitePages ==
    {ErrorPage} \cup
    { [error |-> FALSE, items |-> items, has_next |-> has_next] :
        items \in { <<>> } \cup { <<item>> : item \in PageItemPool }
                  \cup { <<a, b>> : <<a, b>> \in {pair \in PageItemPool \X PageItemPool :
                                                   pair[1] # pair[2]} },
        has_next \in BOOLEAN }

\* a site: its pages, and what it answers beyond the last of them, an
\* error or the last page again
Sites ==
    { [pages |-> pages, beyond |-> beyond] :
        pages \in BSeq(SitePages, MaxSitePages) \ {<<>>}, beyond \in {"error", "repeat"} }

\* fetch_page(get_page_url(color_range, page))
PageAt(site, page) ==
    IF page <= Len(site.pages) THEN site.pages[page]
    ELSE IF site.beyond = "repeat" THEN site.pages[Len(site.pages)]
    ELSE ErrorPage

\* ak_paint_scraper.dedupe_by_name: the first paint of every SKU
RECURSIVE DedupeSeen(_, _)
DedupeSeen(paints, seen_skus) ==
    IF paints = <<>> THEN <<>>
    ELSE LET sku == IF TruthyStr(Head(paints).sku) THEN Head(paints).sku ELSE <<>>
         IN  IF sku # <<>> /\ sku \in seen_skus
             THEN DedupeSeen(Tail(paints), seen_skus)
             ELSE <<Head(paints)>> \o DedupeSeen(Tail(paints), seen_skus \cup ({sku} \ {<<>>}))

dedupe_by_name(paints) == DedupeSeen(paints, {})

\* the paints of an AK page of the range 'afv' as they go into all_paints
AkPagePaints(page) ==
    LET paints == dedupe_by_name(SelectSeq(page.items, LAMBDA p : is_paint_product(p, {})))
    IN  [i \in 1..Len(paints) |-> paints[i] @@ [category |-> "AFV", paint_type |-> "opaque"]]

\* the paints of a Vallejo page as they go into all_paints
VallejoPagePaints(page, filter_products) ==
    LET normalized == [i \in 1..Len(page.items) |->
                         IF TruthyStr(page.items[i].sku)
                         THEN [page.items[i] EXCEPT !.sku = vallejo_normalize_sku(@)]
                         ELSE page.items[i]]
        paints == IF filter_products
                  THEN SelectSeq(normalized, LAMBDA p : vallejo_is_paint_product(p))
                  ELSE normalized
    IN  [i \in 1..Len(paints) |->
           paints[i] @@ [paint_type |-> "opaque", range_name |-> "Model Color"]]

\* AK: break only if the page had no products at all (before filtering)
AkStops_after_filter(before_filter, paints) == paints = <<>>

AkStops(before_filter, paints) == before_filter = 0

InitPages ==
    /\ dir = <<>>
    /\ dirBefore = <<>>
    /\ op = <<>>
    /\ report = NoReport
    /\ raw \in Sites
    /\ scraped = <<>>
    /\ catalogue = <<>>
    /\ \E brand \in {"ak", "ak_sets", "vallejo"}, filter_products \in BOOLEAN :
         /\ brand # "vallejo" => filter_products
         /\ colors = IF brand = "ak_sets" THEN <<{}>> ELSE <<>>
         /\ pool = [brand |-> brand, filter_products |-> filter_products, page |-> 1,
                    main |-> "scraping"]

\* one turn of the while loop of ak_paint_scraper.scrape_color_range, and
\* the return when the loop is left
AkScrapePage ==
    /\ pool.brand = "ak" /\ pool.main = "scraping"
    /\ LET page == PageAt(raw, pool.page)
           paints == AkPagePaints(page)
           all_paints == IF page.error \/ AkStops(Len(page.items), paints)
                         THEN scraped ELSE scraped \o paints
           goes_on == /\ ~page.error
                      /\ ~AkStops(Len(page.items), paints)
                      /\ page.has_next
                      /\ WithinLimit(pool.page + 1)
       IN  /\ op' = Append(op, [page |-> pool.page, error |-> page.error,
                                before_filter |-> Len(page.items), paints |-> Len(paints),
                                has_next |-> page.has_next])
           /\ scraped' = all_paints
           /\ pool' = [pool EXCEPT !.page = IF page.error \/ AkStops(Len(page.items), paints)
                                                 \/ ~page.has_next
                                            THEN @ ELSE @ + 1,
                                   !.main = IF goes_on THEN "scraping" ELSE "returned"]
           /\ catalogue' = IF goes_on THEN catalogue ELSE all_paints
    /\ UNCHANGED <<dir, dirBefore, colors, report, raw>>

\* one turn of the while loop of vallejo_paint_scraper.scrape_range, and
\* the return when the loop is left
VallejoScrapePage ==
    /\ pool.brand = "vallejo" /\ pool.main = "scraping"
    /\ pool.page <= MaxVallejoPages
    /\ LET page == PageAt(raw, pool.page)
           paints == VallejoPagePaints(page, pool.filter_products)
           all_paints == IF page.error THEN scraped ELSE scraped \o paints
           goes_on == ~page.error /\ paints # <<>> /\ page.has_next
       IN  /\ op' = Append(op, [page |-> pool.page, error |-> page.error,
                                before_filter |-> Len(page.items), paints |-> Len(paints),
                                has_next |-> page.has_next])
           /\ scraped' = all_paints
           /\ pool' = [pool EXCEPT !.page = IF goes_on THEN @ + 1 ELSE @,
                                   !.main = IF goes_on THEN "scraping" ELSE "returned"]
           /\ catalogue' = IF goes_on THEN catalogue ELSE all_paints
    /\ UNCHANGED <<dir, dirBefore, colors, report, raw>>

\* what fetch_sets_from_url adds to page_skus for a product, tabulated over
\* the SKUs a page can list: the SKU in upper case, if that is of the valid
\* SKU pattern
ValidSetSku ==
    [sku \in {item.sku : item \in PageItemPool} |->
       IF MatchesSkuPattern(Upper(sku)) THEN {Upper(sku)} ELSE {}]

\* page_skus of a page
PageSkus(page) == UNION { ValidSetSku[page.items[i].sku] : i \in 1..Len(page.items) }

\* one turn of the while loop of ak_paint_scraper.fetch_sets_from_url, and
\* the return when the loop is left; colors holds set_skus.  A page that
\* cannot be fetched is one that answers 404 or raises a RequestException:
\* the loop breaks on both
FetchSetsPage ==
    /\ pool.brand = "ak_sets" /\ pool.main = "scraping"
    /\ \E page \in {PageAt(raw, pool.page)} : \E page_skus \in {PageSkus(page)} :
         LET stops == page.error \/ page_skus = {}
             set_skus == IF stops THEN colors[1] ELSE colors[1] \cup page_skus
             goes_on == ~stops /\ WithinLimit(pool.page + 1)
         IN  /\ op' = Append(op, [page |-> pool.page, error |-> page.error,
                                  before_filter |-> Len(page.items),
                                  paints |-> Cardinality(page_skus),
                                  has_next |-> page.has_next])
             /\ colors' = <<set_skus>>
             /\ pool' = [pool EXCEPT !.page = IF stops THEN @ ELSE @ + 1,
                                     !.main = IF goes_on THEN "scraping" ELSE "returned"]
             /\ catalogue' = IF goes_on THEN catalogue ELSE <<set_skus>>
    /\ UNCHANGED <<dir, dirBefore, scraped, report, raw>>

NextPages == AkScrapePage \/ VallejoScrapePage \/ FetchSetsPage

SpecPages == InitPages /\ [][NextPages]_vars

\* every request has a timeout and nothing else holds a loop up: a turn
\* that can be taken is taken
SpecPagesFair == SpecPages /\ WF_vars(NextPages)

(***************************************************************************)
(* The single-file update, main with --update-json: dir holds the file,    *)
(* scraped the scraped data every run of the model is given, op the runs   *)
(* so far, report.total_updated what the last run printed as updated.      *)
(***************************************************************************)
\* ak_paint_scraper.update_existing_json: the file it returns and the
\* number it prints
update_existing_json(file, scraped_data) ==
    LET sku_to_hex == sku_to_data(scraped_data)
        hit(paint) == NormSku(paint.sku) \in DOMAIN sku_to_hex
        hex(paint) == sku_to_hex[NormSku(paint.sku)].hex
    IN  IF ~Recognised(file) THEN [file |-> file, updated |-> 0]
        ELSE [file |-> [file EXCEPT !.paints =
                          [i \in 1..Len(file.paints) |->
                             IF hit(file.paints[i])
                             THEN [file.paints[i] EXCEPT !.hex = hex(file.paints[i])]
                             ELSE file.paints[i]]],
              updated |-> Cardinality({i \in 1..Len(file.paints) : hit(file.paints[i])})]

\* the lookup of the other two brands: the last record of every normalized
\* SKU among the records at the positions kept
LastOfSku(scraped_data, kept, Norm(_)) ==
    [sku \in {Norm(scraped_data[i].sku) : i \in kept} |->
       scraped_data[Max({i \in kept : Norm(scraped_data[i].sku) = sku})]]

\* vallejo_paint_scraper.update_existing_json
vallejo_update_existing_json(file, scraped_data) ==
    LET sku_to_data_ == LastOfSku(scraped_data,
                                  {i \in 1..Len(scraped_data) : InLookup(scraped_data[i])},
                                  vallejo_normalize_sku)
        hit(paint) == vallejo_normalize_sku(paint.sku) \in DOMAIN sku_to_data_
        found(paint) == sku_to_data_[vallejo_normalize_sku(paint.sku)]
        merged(paint) ==
            LET with_hex == [paint EXCEPT !.hex = found(paint).hex]
            IN  IF Truthy(found(paint).product_url) /\ ~Truthy(paint.url)
                THEN [with_hex EXCEPT !.url = found(paint).product_url]
                ELSE with_hex
    IN  IF ~Recognised(file) THEN [file |-> file, updated |-> 0]
        ELSE [file |-> [file EXCEPT !.paints =
                          [i \in 1..Len(file.paints) |->
                             IF hit(file.paints[i]) THEN merged(file.paints[i])
                             ELSE file.paints[i]]],
              updated |-> Cardinality({i \in 1..Len(file.paints) : hit(file.paints[i])})]

\* citadel_paint_scraper.update_existing_json; the hex of a scraped record
\* is its '_hex'
citadel_update_existing_json(file, scraped_data) ==
    LET sku_to_data_ == LastOfSku(scraped_data,
                                  {i \in 1..Len(scraped_data) :
                                     /\ NonEmpty(citadel_normalize_sku(scraped_data[i].sku))
                                     /\ Truthy(scraped_data[i].hex)},
                                  citadel_normalize_sku)
        hit(paint) == citadel_normalize_sku(paint.sku) \in DOMAIN sku_to_data_
        found(paint) == sku_to_data_[citadel_normalize_sku(paint.sku)]
    IN  IF ~Recognised(file) THEN [file |-> file, updated |-> 0]
        ELSE [file |-> [file EXCEPT !.paints =
                          [i \in 1..Len(file.paints) |->
                             IF hit(file.paints[i])
                             THEN [file.paints[i] EXCEPT !.hex = found(file.paints[i]).hex]
                             ELSE file.paints[i]]],
              updated |-> Cardinality({i \in 1..Len(file.paints) : hit(file.paints[i])})]

InitUpdate ==
    /\ dir \in { <<file>> : file \in FirstFiles \cup {CatalogueFile("other", <<>>)} }
    /\ dirBefore = dir
    /\ scraped \in BSeq(FreshPool, MaxFresh)
    /\ colors = <<>>
    /\ op = <<>>
    /\ report = NoReport
    /\ pool = NoPool
    /\ raw = <<>>
    /\ catalogue = <<>>

\* main with --update-json: updated = update_existing_json(...); json.dump
AkUpdateJson ==
    /\ Len(op) < MaxRuns
    /\ LET run == update_existing_json(dir[1], scraped)
       IN  /\ dir' = <<run.file>>
           /\ report' = [NoReport EXCEPT !.total_updated = run.updated]
    /\ dirBefore' = dir
    /\ op' = Append(op, "ak_update_json")
    /\ UNCHANGED <<scraped, colors, raw, catalogue, pool>>

VallejoUpdateJson ==
    /\ Len(op) < MaxRuns
    /\ LET run == vallejo_update_existing_json(dir[1], scraped)
       IN  /\ dir' = <<run.file>>
           /\ report' = [NoReport EXCEPT !.total_updated = run.updated]
    /\ dirBefore' = dir
    /\ op' = Append(op, "vallejo_update_json")
    /\ UNCHANGED <<scraped, colors, raw, catalogue, pool>>

CitadelUpdateJson ==
    /\ Len(op) < MaxRuns
    /\ LET run == citadel_update_existing_json(dir[1], scraped)
       IN  /\ dir' = <<run.file>>
           /\ report' = [NoReport EXCEPT !.total_updated = run.updated]
    /\ dirBefore' = dir
    /\ op' = Append(op, "citadel_update_json")
    /\ UNCHANGED <<scraped, colors, raw, catalogue, pool>>

\* main with --update-all: batch_update_json_files('.', all_data)
BatchUpdateJsonFiles ==
    /\ Len(op) < MaxRuns
    /\ report' = BatchReport(UpdateFiles(dir, sku_to_data(scraped), name_to_data(scraped)),
                             scraped)
    /\ dir' = FilesOf(report'.files)
    /\ dirBefore' = dir
    /\ op' = Append(op, "batch")
    /\ UNCHANGED <<scraped, colors, raw, catalogue, pool>>

\* monument_hobbies_scraper.main with --update-all, c being the colours
\* sampled
MonumentUpdateJson(c) ==
    /\ Len(op) < MaxRuns
    /\ LET run == MonumentRun(dir, c, 1)
       IN  /\ dir' = run.dir
           /\ report' = [NoReport EXCEPT !.crashed_at = run.crashed_at]
    /\ dirBefore' = dir
    /\ colors' = c
    /\ op' = Append(op, "monument")
    /\ UNCHANGED <<scraped, raw, catalogue, pool>>

NextUpdate ==
    \/ AkUpdateJson
    \/ VallejoUpdateJson
    \/ CitadelUpdateJson
    \/ BatchUpdateJsonFiles
    \/ \E c \in MonumentColors : MonumentUpdateJson(c)

SpecUpdate == InitUpdate /\ [][NextUpdate]_vars

(***************************************************************************)
(* One call of a fetch function that retries: op is what the call did so   *)
(* far, its attempts and its sleeps, catalogue what it returned.  Times    *)
(* are in tenths of a second.                                              *)
(*   pool.fn       "fetch_svg" (Citadel), "monument_fetch_page",           *)
(*                 "reaper_fetch_page" or "vallejo_fetch_page"             *)
(*   pool.retries  the argument retries, pool.delay the argument delay     *)
(*   pool.attempt  the value of attempt in the next turn of the loop       *)
(*   pool.main     "calling", "returned" or "raised"                       *)
(***************************************************************************)
MaxRetries == 4

FetchFunctions ==
    {"fetch_svg", "monument_fetch_page", "reaper_fetch_page", "vallejo_fetch_page"}

\* what a request that succeeds may give
Contents == {"content_a", "content_b"}

\* delay: float = 0.5, and a second
Delays == {5, 10}

RECURSIVE Pow2(_)
Pow2(n) == IF n = 0 THEN 1 ELSE 2 * Pow2(n - 1)

\* the time slept after a failed attempt: delay * (attempt + 1),
\* 2 ** attempt, 2
Backoff(fn, delay, attempt) ==
    CASE fn = "fetch_svg" -> delay * (attempt + 1)
      [] fn = "monument_fetch_page" -> 10 * Pow2(attempt)
      [] OTHER -> 20

\* if attempt < retries - 1
RetriesLeft_always(attempt, retries) == TRUE

RetriesLeft(attempt, retries) == attempt < retries - 1

Attempted(outcome) == [kind |-> "attempt", outcome |-> outcome, tenths |-> 0]
Slept(tenths) == [kind |-> "sleep", outcome |-> "", tenths |-> tenths]

InitRetry ==
    /\ dir = <<>>
    /\ dirBefore = <<>>
    /\ scraped = <<>>
    /\ colors = <<>>
    /\ op = <<>>
    /\ report = NoReport
    /\ raw = <<>>
    /\ catalogue = <<>>
    /\ \E fn \in FetchFunctions, retries \in 1..MaxRetries, delay \in Delays :
         /\ fn # "fetch_svg" => delay = 5
         /\ pool = [fn |-> fn, retries |-> retries, delay |-> delay, attempt |-> 0,
                    main |-> "calling"]

\* a turn of the loop whose request succeeds: the content is returned
AttemptSucceeds(content) ==
    /\ pool # NoPool /\ pool.main = "calling" /\ pool.attempt < pool.retries
    /\ op' = Append(op, Attempted("ok"))
    /\ catalogue' = <<content>>
    /\ pool' = [pool EXCEPT !.main = "returned"]
    /\ UNCHANGED <<dir, dirBefore, scraped, colors, report, raw>>

\* a turn of the loop of citadel_paint_scraper.fetch_svg whose request
\* raises
FetchSvgFails ==
    /\ pool.fn = "fetch_svg" /\ pool.main = "calling" /\ pool.attempt < pool.retries
    /\ IF RetriesLeft(pool.attempt, pool.retries)
       THEN /\ op' = op \o <<Attempted("fail"),
                             Slept(Backoff(pool.fn, pool.delay, pool.attempt))>>
            /\ pool' = [pool EXCEPT !.attempt = @ + 1]
            /\ UNCHANGED catalogue
       ELSE /\ op' = Append(op, Attempted("fail"))
            /\ pool' = [pool EXCEPT !.main = "returned"]
            /\ catalogue' = <<None>>
    /\ UNCHANGED <<dir, dirBefore, scraped, colors, report, raw>>

\* a turn of the loop of monument_hobbies_scraper.fetch_page whose request
\* raises: the loop ends with the last turn, None is returned after it
MonumentFetchFails ==
    /\ pool.fn = "monument_fetch_page" /\ pool.main = "calling"
    /\ pool.attempt < pool.retries
    /\ op' = IF RetriesLeft(pool.attempt, pool.retries)
             THEN op \o <<Attempted("fail"), Slept(Backoff(pool.fn, pool.delay, pool.attempt))>>
             ELSE Append(op, Attempted("fail"))
    /\ IF pool.attempt + 1 < pool.retries
       THEN /\ pool' = [pool EXCEPT !.attempt = @ + 1]
            /\ UNCHANGED catalogue
       ELSE /\ pool' = [pool EXCEPT !.main = "returned"]
            /\ catalogue' = <<None>>
    /\ UNCHANGED <<dir, dirBefore, scraped, colors, report, raw>>

\* a turn of the loop of reaper_paint_scraper.fetch_page whose request
\* raises
ReaperFetchFails ==
    /\ pool.fn = "reaper_fetch_page" /\ pool.main = "calling" /\ pool.attempt < pool.retries
    /\ IF RetriesLeft(pool.attempt, pool.retries)
       THEN /\ op' = op \o <<Attempted("fail"),
                             Slept(Backoff(pool.fn, pool.delay, pool.attempt))>>
            /\ pool' = [pool EXCEPT !.attempt = @ + 1]
       ELSE /\ op' = Append(op, Attempted("fail"))
            /\ pool' = [pool EXCEPT !.main = "raised"]
    /\ UNCHANGED <<dir, dirBefore, scraped, colors, report, raw, catalogue>>

\* a turn of the loop of vallejo_paint_scraper.fetch_page whose request
\* raises
VallejoFetchFails ==
    /\ pool.fn = "vallejo_fetch_page" /\ pool.main = "calling" /\ pool.attempt < pool.retries
    /\ IF RetriesLeft(pool.attempt, pool.retries)
       THEN /\ op' = op \o <<Attempted("fail"),
                             Slept(Backoff(pool.fn, pool.delay, pool.attempt))>>
            /\ pool' = [pool EXCEPT !.attempt = @ + 1]
       ELSE /\ op' = Append(op, Attempted("fail"))
            /\ pool' = [pool EXCEPT !.main = "raised"]
    /\ UNCHANGED <<dir, dirBefore, scraped, colors, report, raw, catalogue>>

NextRetry ==
    \/ \E content \in Contents : AttemptSucceeds(content)
    \/ FetchSvgFails
    \/ MonumentFetchFails
    \/ ReaperFetchFails
    \/ VallejoFetchFails

SpecRetry == InitRetry /\ [][NextRetry]_vars

(***************************************************************************)
(* Vocabulary of the properties.  These definitions restate, from the      *)
(* records and entries alone, which entry a run has to match to which      *)
(* record; they do not read the lookups the run builds.                    *)
(***************************************************************************)
LastOp == IF op = <<>> THEN "init" ELSE op[Len(op)]
AfterBatch == LastOp = "batch"
AfterMonument == LastOp = "monument"

\* the files the merge has to treat as catalogues
Catalogues == { f \in 1..Len(dirBefore) : dirBefore[f].shape \in {"list", "wrapper"} }
Entries(f) == 1..Len(dirBefore[f].paints)

\* the fresh records that carry a SKU and a sampled colour
Sampled(S) == { i \in 1..Len(S) : Len(S[i].sku) > 0 /\ S[i].hex \notin {None, ""} }

\* the sampled records of the SKU of entry e, and of its name
SkuRecords(e, S) == { i \in Sampled(S) : NormSku(S[i].sku) = NormSku(e.sku) }
NameRecords(e, S) ==
    { i \in Sampled(S) : /\ Len(NormName(e.name)) > 0
                         /\ Len(S[i].title) > 0
                         /\ NormName(S[i].title) = NormName(e.name) }

\* entry i of file f before and after the last run
Old(f, i) == dirBefore[f].paints[i]
New(f, i) == dir[f].paints[i]

\* the entries of file f the last run changed
Changed(f) == { i \in Entries(f) : New(f, i) # Old(f, i) }

\* no two entries of the list share a normalized SKU
UniqueSkus(paints) ==
    \A i, j \in 1..Len(paints) : i # j => NormSku(paints[i].sku) # NormSku(paints[j].sku)

(***************************************************************************)
(* C1.  Batch merge is idempotent: a merge run that follows a merge run    *)
(* and is given the same fresh records, or a subset of them, changes no    *)
(* entry of any file and counts 0 updates.                                 *)
(***************************************************************************)
RecordsOf(S) == { S[i] : i \in 1..Len(S) }

C1_Idempotent ==
    [][ ( /\ AfterBatch
          /\ op' = Append(op, "batch")
          /\ RecordsOf(scraped') \subseteq RecordsOf(scraped) )
        => ( dir' = dir /\ report'.total_updated = 0 ) ]_vars

(***************************************************************************)
(* C2.  Merge never deletes: after a run every file holds the same number  *)
(* of entries in the same order, and an entry that matches no sampled      *)
(* record by SKU or by name is unchanged in every field; if it has a SKU   *)
(* it is listed as not found.                                              *)
(***************************************************************************)
C2_NeverDeletes ==
    AfterBatch =>
      \A f \in Catalogues :
        /\ Len(dir[f].paints) = Len(dirBefore[f].paints)
        /\ \A i \in Entries(f) : New(f, i).id = Old(f, i).id
        /\ \A i \in Entries(f) :
             (SkuRecords(Old(f, i), scraped) = {} /\ NameRecords(Old(f, i), scraped) = {})
             => /\ New(f, i) = Old(f, i)
                /\ report.files[f].match_type[i] = "none"
                /\ Len(NormSku(Old(f, i).sku)) > 0
                   => \E k \in 1..Len(report.files[f].not_found) :
                        report.files[f].not_found[k] = Old(f, i).sku

\* a run rewrote a file in which one entry was updated and another matched nothing
C2_Witness ==
    /\ AfterBatch
    /\ \E f \in Catalogues :
         /\ report.files[f].written
         /\ \E i \in Entries(f) :
              /\ SkuRecords(Old(f, i), scraped) = {}
              /\ NameRecords(Old(f, i), scraped) = {}
              /\ Len(Old(f, i).sku) > 0

(***************************************************************************)
(* C3.  Merge preserves SKU uniqueness: a file in which no two entries     *)
(* share a normalized SKU before a run has no two such entries after it.   *)
(***************************************************************************)
C3_SkuUniquenessKept ==
    AfterBatch =>
      \A f \in Catalogues :
        UniqueSkus(dirBefore[f].paints) => UniqueSkus(dir[f].paints)

(***************************************************************************)
(* C4.  SKU first, name second: an entry whose normalized SKU is that of a *)
(* sampled record is matched by SKU, to the last such record, whatever its *)
(* name maps to; its sku and url are not rewritten; an entry is matched by *)
(* name only when no sampled record has its SKU.                           *)
(***************************************************************************)
C4_SkuFirst ==
    AfterBatch =>
      \A f \in Catalogues :
        /\ Len(dir[f].paints) = Len(dirBefore[f].paints)
        /\ \A i \in Entries(f) :
             /\ SkuRecords(Old(f, i), scraped) # {}
                => /\ report.files[f].match_type[i] = "sku"
                   /\ New(f, i).sku = Old(f, i).sku
                   /\ New(f, i).url = Old(f, i).url
                   /\ New(f, i).hex = scraped[Max(SkuRecords(Old(f, i), scraped))].hex
             /\ report.files[f].match_type[i] = "name"
                => SkuRecords(Old(f, i), scraped) = {}

\* an entry was matched by SKU although its name is that of a record of another SKU
C4_Witness ==
    /\ AfterBatch
    /\ \E f \in Catalogues : \E i \in Entries(f) :
         /\ report.files[f].match_type[i] = "sku"
         /\ \E k \in NameRecords(Old(f, i), scraped) :
              NormSku(scraped[k].sku) # NormSku(Old(f, i).sku)

(***************************************************************************)
(* C5.  An entry whose normalized SKU is that of a sampled record, the     *)
(* matched (last) one carrying a hex other than the entry's, gets that hex *)
(* and counts as one update: the file's updated count is the number of its *)
(* entries that changed.  Differently spaced and cased SKUs match: entry   *)
(* {sku "AK1", hex ""} with the one record {sku "ak 1", hex "#445566"}     *)
(* ends with that hex and updated = 1.                                     *)
(***************************************************************************)
C5_Entry == [sku |-> SKU_AK1, name |-> NAME_Red, hex |-> "", url |-> "u0", id |-> "id1"]
C5_Record == [sku |-> SKU_ak_1, title |-> NAME_Blue, hex |-> HEX_2, product_url |-> "", category |-> "Ink"]

C5_Scenario ==
    /\ AfterBatch
    /\ dirBefore[2].shape \in {"list", "wrapper"}
    /\ dirBefore[2].paints = <<C5_Entry>>
    /\ scraped = <<C5_Record>>

C5_HexBySku ==
    AfterBatch =>
      /\ \A f \in Catalogues :
           /\ Len(dir[f].paints) = Len(dirBefore[f].paints)
           /\ \A i \in Entries(f) :
                LET recs == SkuRecords(Old(f, i), scraped)
                IN  (recs # {} /\ scraped[Max(recs)].hex # Old(f, i).hex)
                    => /\ New(f, i).hex = scraped[Max(recs)].hex
                       /\ i \in Changed(f)
           /\ report.files[f].updated = Cardinality(Changed(f))
      /\ C5_Scenario
         => /\ dir[2].paints[1].hex = HEX_2
            /\ report.files[2].updated = 1

\* the scenario of the claim has run
C5_Witness == C5_Scenario /\ dir[2].paints[1].hex = HEX_2

(***************************************************************************)
(* C6 as stated.  An entry whose normalized SKU no sampled record has, but *)
(* whose normalized name is that of a sampled record, gets that record's   *)
(* SKU and its url, and counts one SKU change and one update.              *)
(***************************************************************************)
NameMatched(f, i) ==
    SkuRecords(Old(f, i), scraped) = {} /\ NameRecords(Old(f, i), scraped) # {}

NameRecord(f, i) == scraped[Min(NameRecords(Old(f, i), scraped))]

C6_RenameSetsUrl ==
    AfterBatch =>
      \A f \in Catalogues : \A i \in Entries(f) :
        NameMatched(f, i)
        => /\ New(f, i).sku = NameRecord(f, i).sku
           /\ New(f, i).url = NameRecord(f, i).product_url
           /\ report.files[f].sku_changes >= 1
           /\ report.files[f].updated >= 1

(***************************************************************************)
(* C6 amended.  Such an entry gets the SKU and the hex of the first        *)
(* sampled record of its name, and that record's url when the record       *)
(* carries one (otherwise its url is kept); every such entry counts one    *)
(* SKU change and one update, so sku_changes <= updated.  Entry            *)
(* {sku "AK9", name "Red"} with the one record {sku "AK1", title "Red",    *)
(* url "u1"} ends with sku "AK1", url "u1" and sku_changes = 1.            *)
(***************************************************************************)
C6_Entry == [sku |-> SKU_AK9, name |-> NAME_Red, hex |-> "", url |-> "u0", id |-> "id3"]
C6_Record == [sku |-> SKU_AK1, title |-> NAME_Red, hex |-> HEX_1, product_url |-> "u1", category |-> "General"]

C6_Scenario ==
    /\ AfterBatch
    /\ dirBefore[2].shape \in {"list", "wrapper"}
    /\ dirBefore[2].paints = <<C6_Entry>>
    /\ scraped = <<C6_Record>>

C6_Rename ==
    AfterBatch =>
      /\ \A f \in Catalogues :
           /\ Len(dir[f].paints) = Len(dirBefore[f].paints)
           /\ \A i \in Entries(f) :
                NameMatched(f, i)
                => /\ New(f, i).sku = NameRecord(f, i).sku
                   /\ New(f, i).hex = NameRecord(f, i).hex
                   /\ New(f, i).url = IF NameRecord(f, i).product_url \notin {None, ""}
                                      THEN NameRecord(f, i).product_url
                                      ELSE Old(f, i).url
                   /\ i \in Changed(f)
           /\ report.files[f].sku_changes
                = Cardinality({ i \in Entries(f) : NameMatched(f, i) })
           /\ report.files[f].sku_changes <= report.files[f].updated
      /\ report.total_sku_updated <= report.total_updated
      /\ C6_Scenario
         => /\ dir[2].paints[1].sku = SKU_AK1
            /\ dir[2].paints[1].url = "u1"
            /\ report.files[2].sku_changes = 1

\* an entry was renamed after a record that carries no url, and kept its url
C6_Witness ==
    /\ AfterBatch
    /\ \E f \in Catalogues : \E i \in Entries(f) :
         /\ NameMatched(f, i)
         /\ NameRecord(f, i).product_url = ""
         /\ New(f, i).sku = NameRecord(f, i).sku
         /\ New(f, i).url = Old(f, i).url

(***************************************************************************)
(* C7 as stated.  The SKU lookup holds every fresh record with a SKU,      *)
(* with or without a hex: an entry whose normalized SKU is that of any     *)
(* fresh record is matched by SKU, never by name, and is never listed as   *)
(* not found.                                                              *)
(***************************************************************************)
AnyRecords(e, S) ==
    { i \in 1..Len(S) : Len(S[i].sku) > 0 /\ NormSku(S[i].sku) = NormSku(e.sku) }

Listed(f, sku) ==
    \E k \in 1..Len(report.files[f].not_found) : report.files[f].not_found[k] = sku

C7_LookupOfEveryRecord ==
    AfterBatch =>
      \A f \in Catalogues : \A i \in Entries(f) :
        AnyRecords(Old(f, i), scraped) # {}
        => /\ report.files[f].match_type[i] = "sku"
           /\ ~Listed(f, Old(f, i).sku)

(***************************************************************************)
(* C7 amended.  Both lookups hold only the fresh records that carry a SKU  *)
(* and a non-empty hex: the SKU lookup maps the normalized SKU of every    *)
(* such record to the last record of that SKU, and every value of the name *)
(* lookup is such a record.  An entry whose normalized SKU is that of such *)
(* a record is matched by SKU and never listed as not found; an entry      *)
(* whose SKU only hex-less records carry is matched by name or listed as   *)
(* not found.                                                              *)
(***************************************************************************)
C7_LookupOfSampledRecords ==
    AfterBatch =>
      /\ DOMAIN sku_to_data(scraped) = { NormSku(scraped[i].sku) : i \in Sampled(scraped) }
      /\ \A i \in Sampled(scraped) :
           sku_to_data(scraped)[NormSku(scraped[i].sku)]
             = scraped[Max({ j \in Sampled(scraped) :
                               NormSku(scraped[j].sku) = NormSku(scraped[i].sku) })]
      /\ \A k \in DOMAIN name_to_data(scraped) :
           \E i \in Sampled(scraped) : name_to_data(scraped)[k] = scraped[i]
      /\ \A f \in Catalogues : \A i \in Entries(f) :
           /\ SkuRecords(Old(f, i), scraped) # {}
              => /\ report.files[f].match_type[i] = "sku"
                 /\ ~Listed(f, Old(f, i).sku)
           /\ (SkuRecords(Old(f, i), scraped) = {} /\ AnyRecords(Old(f, i), scraped) # {})
              => \/ report.files[f].match_type[i] = "name"
                 \/ Listed(f, Old(f, i).sku)

\* an entry whose SKU only a hex-less record carries was listed as not found
C7_Witness ==
    /\ AfterBatch
    /\ \E f \in Catalogues : \E i \in Entries(f) :
         /\ SkuRecords(Old(f, i), scraped) = {}
         /\ AnyRecords(Old(f, i), scraped) # {}
         /\ Listed(f, Old(f, i).sku)
         /\ New(f, i) = Old(f, i)

(***************************************************************************)
(* C8.  Both file shapes are treated alike by every update path: a run     *)
(* (batch merge or Monument's update) rejects neither a flat list nor a    *)
(* wrapper object, updates the entries of either the same way, and leaves  *)
(* the wrapper's other keys alone.                                         *)
(***************************************************************************)
C8_BothShapes ==
    /\ AfterBatch =>
         \A f \in Catalogues :
           /\ ~report.files[f].skipped
           /\ dir[f].shape = dirBefore[f].shape
           /\ dir[f].range = dirBefore[f].range
           /\ dir[f].name = dirBefore[f].name
           /\ PaintsOf(MergeAll(dirBefore[f].paints, sku_to_data(scraped), name_to_data(scraped)))
                = dir[f].paints
    /\ AfterMonument =>
         \A f \in Catalogues :
           /\ report.crashed_at # f
           /\ dir[f].shape = dirBefore[f].shape
           /\ dir[f].range = dirBefore[f].range
           /\ dir[f].name = dirBefore[f].name

(***************************************************************************)
(* C9.  In batch mode a file that does not parse, or whose JSON is neither *)
(* a list nor an object with 'paints', is skipped: it is not rewritten and *)
(* adds nothing to the totals, and every other file is still processed     *)
(* (each of its entries is looked up, and its updates are in the totals).  *)
(***************************************************************************)
Malformed == { f \in 1..Len(dirBefore) : dirBefore[f].shape \in {"other", "unparsable"} }

RECURSIVE SumOver(_, _)
SumOver(F, g) ==
    IF F = {} THEN 0
    ELSE LET f == CHOOSE x \in F : TRUE IN g[f] + SumOver(F \ {f}, g)

C9_MalformedSkipped ==
    AfterBatch =>
      /\ Len(report.files) = Len(dirBefore)
      /\ \A f \in Malformed :
           /\ report.files[f].skipped
           /\ ~report.files[f].written
           /\ report.files[f].updated = 0
           /\ dir[f] = dirBefore[f]
      /\ \A f \in Catalogues :
           /\ ~report.files[f].skipped
           /\ Len(report.files[f].match_type) = Len(dirBefore[f].paints)
           /\ report.files[f].written = (Changed(f) # {})
      /\ report.total_updated
           = SumOver(Catalogues, [f \in Catalogues |-> Cardinality(Changed(f))])

\* a malformed file was skipped and the file after it was updated
C9_Witness ==
    /\ AfterBatch
    /\ \E f \in Malformed : \E g \in Catalogues :
         /\ f < g
         /\ report.files[f].skipped
         /\ report.files[g].written
         /\ report.total_updated >= 1

(***************************************************************************)
(* Vocabulary of the assembler properties.                                 *)
(***************************************************************************)
AfterGenerate ==
    LastOp \in {"ak_generate", "reaper_generate", "monument_generate", "citadel_generate"}

\* the normalized SKUs of the entries of a catalogue, in order
NormalizedSkus(cat) == [i \in 1..Len(cat) |-> normalize_sku(cat[i].sku)]

(***************************************************************************)
(* C10.  Assembler dedup invariant: whatever raw records a generation run  *)
(* is given, repeated or differently formatted SKUs included, the          *)
(* catalogue it returns has no two entries with the same normalized SKU.   *)
(***************************************************************************)
C10_NoDuplicateSkus ==
    AfterGenerate =>
      \A i, j \in 1..Len(catalogue) :
        i # j => NormalizedSkus(catalogue)[i] # NormalizedSkus(catalogue)[j]

\* the same of the catalogues of AK Interactive and of Reaper alone
C10_AkAndReaper ==
    LastOp \in {"ak_generate", "reaper_generate"} =>
      \A i, j \in 1..Len(catalogue) :
        i # j => NormalizedSkus(catalogue)[i] # NormalizedSkus(catalogue)[j]

\* the entries of the catalogue are in non-descending order of Less
Ordered(Less(_, _)) ==
    \A i \in 1..(Len(catalogue) - 1) : ~Less(catalogue[i + 1], catalogue[i])

SkuLess(a, b) == StrLess(a.sku, b.sku)
SortKeyLess(a, b) == KeyLess(sku_sort_key(a.sku), sku_sort_key(b.sku))
NameLess(a, b) == StrLess(a.name, b.name)

Orderings(s) == {[i \in 1..Len(s) |-> s[f[i]]] : f \in Permutations(1..Len(s))}

(***************************************************************************)
(* C12.  Assembler order determinism: whatever the order in which the raw  *)
(* records of a collection are given, generate_catalogue of AK Interactive *)
(* returns the same sequence of normalized SKUs.                           *)
(***************************************************************************)
C12_OrderIndependent ==
    LastOp = "ak_generate" =>
      \A other \in Orderings(raw) :
        NormalizedSkus(generate_catalogue(other, "3rd Generation")) = NormalizedSkus(catalogue)

\* three records of three SKUs given in descending order of normalized SKU,
\* the first of them spelled in lower case
C12_Witness ==
    /\ LastOp = "ak_generate"
    /\ Len(raw) = 3
    /\ raw[1].sku = SKU_ak2 /\ raw[2].sku = SKU_AK10 /\ raw[3].sku = SKU_AK1
    /\ NormalizedSkus(catalogue) = <<SKU_AK1, SKU_AK10, SKU_AK2>>

\* the raw records of a list whose SKU normalizes to sku, in the order given
RECURSIVE RecordsOfSku(_, _)
RecordsOfSku(records, sku) ==
    IF records = <<>> THEN <<>>
    ELSE IF NonEmpty(Head(records).sku) /\ normalize_sku(Head(records).sku) = sku
    THEN <<Head(records)>> \o RecordsOfSku(Tail(records), sku)
    ELSE RecordsOfSku(Tail(records), sku)

\* the later duplicates that carry a specific category
Specific(records) ==
    {i \in 2..Len(records) : records[i].category \notin {"", "General"}}

(***************************************************************************)
(* C13.  When several raw records share a normalized SKU, the assembled    *)
(* entry has every field of the first-seen record, but for its category:   *)
(* a first-seen "General" is replaced by the category of the first later   *)
(* duplicate whose category is neither empty nor "General", and no other   *)
(* category is ever replaced.                                              *)
(***************************************************************************)
C13_FirstSeenButCategory ==
    LastOp = "ak_generate" =>
      \A i \in 1..Len(catalogue) :
        LET entry == catalogue[i]
            records == RecordsOfSku(raw, entry.sku)
            first == AkEntry(records[1], entry.range)
            specific == Specific(records)
        IN  /\ [entry EXCEPT !.category = ""] = [first EXCEPT !.category = ""]
            /\ entry.category =
                 IF first.category = "General" /\ specific # {}
                 THEN records[CHOOSE k \in specific : \A l \in specific : k <= l].category
                 ELSE first.category

\* a "General" record, then a duplicate of category "Ink" in another
\* spelling of the SKU, then one of category "Wash": the entry is the first
\* record's with the category "Ink"
C13_Witness ==
    /\ LastOp = "ak_generate"
    /\ Len(raw) = 3 /\ Len(catalogue) = 1
    /\ raw[1].category = "General" /\ raw[2].category = "Ink" /\ raw[3].category = "Wash"
    /\ catalogue[1].category = "Ink"
    /\ catalogue[1].hex = raw[1].hex /\ catalogue[1].url = raw[1].product_url

(***************************************************************************)
(* C14.  SKU normalization is a projection for every brand: normalizing a  *)
(* normalized SKU again gives the same string.                             *)
(***************************************************************************)
C14_Projection ==
    /\ LastOp = "ak_normalize_sku" => normalize_sku(catalogue) = catalogue
    /\ LastOp = "vallejo_normalize_sku" => vallejo_normalize_sku(catalogue) = catalogue
    /\ LastOp = "citadel_normalize_sku" => citadel_normalize_sku(catalogue) = catalogue

\* C14 of AK Interactive and of Vallejo alone
C14_AkAndVallejo ==
    /\ LastOp = "ak_normalize_sku" => normalize_sku(catalogue) = catalogue
    /\ LastOp = "vallejo_normalize_sku" => vallejo_normalize_sku(catalogue) = catalogue

\* entries of two catalogues that agree in the SKU agree in the id, and the
\* same of the name
SameIdPerSku(c1, c2) ==
    \A i \in 1..Len(c1), j \in 1..Len(c2) : c1[i].sku = c2[j].sku => c1[i].id = c2[j].id
SameIdPerName(c1, c2) ==
    \A i \in 1..Len(c1), j \in 1..Len(c2) : c1[i].name = c2[j].name => c1[i].id = c2[j].id

\* the lists that differ from records in the title, name or SKU of one record
Retitled(records, titles) ==
    {[records EXCEPT ![i].title = t] : i \in 1..Len(records), t \in titles}
Renamed(records, names) ==
    {[records EXCEPT ![i].name = n] : i \in 1..Len(records), n \in names}
Reskued(records, skus) ==
    {[records EXCEPT ![i].sku = k] : i \in 1..Len(records), k \in skus}

\* the id of AK Interactive, Citadel and Monument Hobbies entries depends on
\* the SKU alone
IdFromSku ==
    /\ LastOp = "ak_generate" =>
         \A other \in Retitled(raw, {NAME_Red, NAME_Blue, NoneStr}) :
           \A range \in {"3rd Generation", "Real Colors"} :
             SameIdPerSku(catalogue, generate_catalogue(other, range))
    /\ LastOp = "citadel_generate" =>
         \A other \in Renamed(raw, {NAME_Red, NAME_Blue, NAME_Ak_Blue}) :
           SameIdPerSku(catalogue, citadel_generate_catalogue(other))
    /\ LastOp = "monument_generate" =>
         \A i, j \in 1..Len(catalogue) :
           normalize_sku(catalogue[i].sku) = normalize_sku(catalogue[j].sku)
             => catalogue[i].id = catalogue[j].id

HexStrings == {HEX_1, HEX_2}

(***************************************************************************)
(* C16.  Every hex value catalogue generation stores in an entry is the    *)
(* empty string or '#' and six upper-case hex digits; it is never null,    *)
(* the records whose colour sampling failed included.                      *)
(***************************************************************************)
C16_HexNeverNull ==
    LastOp \in {"ak_generate", "citadel_generate", "p3_generate"} =>
      \A i \in 1..Len(catalogue) :
        catalogue[i].hex # None /\ catalogue[i].hex \in {""} \cup HexStrings

\* C16 of P3 alone, whose process_product stores hex_color or ""
C16_P3HexNeverNull ==
    LastOp = "p3_generate" =>
      \A i \in 1..Len(catalogue) : catalogue[i].hex \in {""} \cup HexStrings

\* '#' and six upper-case hexadecimal digits
IsHexString(h) ==
    /\ Len(h) = 7
    /\ h[1] = "#"
    /\ \A i \in 2..7 : \E d \in 1..16 : h[i] = HexDigits[d]

\* every pixel of the image at hand has the colour c
Uniform(c) == \A xy \in DOMAIN raw.px : raw.px[xy] = c

\* no sample region of the call passed the brightness gate
NoRegionPassed ==
    IF LastOp = "ak_sample"
    THEN ~BestColor(raw, ak_sample_regions(scraped[1], raw.width, raw.height),
                    5, 10, 245, <<1, 2>>, NoBest).found
    ELSE ~BestColor(raw, reaper_sample_regions(raw.width, raw.height),
                    6, 15, 240, <<3, 10>>, NoBest).found

\* the fixed fallback anchor of the call
FallbackPixel ==
    IF LastOp = "ak_sample"
    THEN raw.px[<<raw.width \div 2, raw.height \div 4>>]
    ELSE raw.px[<<(raw.width * 50) \div 100, (raw.height * 40) \div 100>>]

(***************************************************************************)
(* C17.  The bitmap sampler returns null only when fetching or decoding    *)
(* the image fails: of every decoded image it returns a hex string, and    *)
(* when no region passes the brightness gate, as in an image whose pixels  *)
(* are all #FEFEFE, the raw colour of the fixed fallback anchor pixel.     *)
(***************************************************************************)
C17_NullOnlyOnFailure ==
    LastOp \in {"ak_sample", "reaper_sample"} =>
      /\ catalogue = NoneStr <=> ~raw.ok
      /\ raw.ok =>
           /\ IsHexString(catalogue)
           /\ Uniform(WHITE) => catalogue = <<"#", "F", "E", "F", "E", "F", "E">>
           /\ Uniform(BLACK) => catalogue = <<"#", "0", "0", "0", "0", "0", "0">>
           /\ NoRegionPassed => catalogue = FormatHex(FallbackPixel)

\* an image of more than one pixel, all #FEFEFE, sampled by the sampler of
\* AK Interactive: the result is #FEFEFE
C17_Witness ==
    /\ LastOp = "ak_sample"
    /\ raw.ok /\ raw.width * raw.height > 1
    /\ Uniform(WHITE)
    /\ catalogue = <<"#", "F", "E", "F", "E", "F", "E">>

\* what sampling makes of a paint of the page: nothing without an img_url,
\* null of an image that cannot be fetched or decoded, the colour of the
\* one pixel otherwise
SampledPaint(paint) ==
    IF ~Truthy(paint.img_url) THEN paint
    ELSE IF ~paint.img.ok THEN [paint EXCEPT !.hex = NoneStr]
    ELSE [paint EXCEPT !.hex = FormatHex(paint.img.px[<<0, 0>>])]

\* every paint is as extracted until its task is done and as sampled from
\* then on, whatever the other tasks did
Isolated ==
    \A i \in 1..Len(raw) :
      scraped[i] = IF pool.task[i] = "done" THEN SampledPaint(raw[i]) ELSE raw[i]

\* the batch returns every submitted paint, each with its own result
AllReturned ==
    pool.main = "returned" =>
      /\ Len(catalogue) = Len(raw)
      /\ \A i \in 1..Len(raw) :
           catalogue[i] = SampledPaint(raw[i]) @@ [category |-> "AFV", paint_type |-> "opaque"]

(***************************************************************************)
(* C18.  Per-record failure isolation in the parallel sampling batch: in   *)
(* every interleaving of the worker tasks, a fetch or decode failure of    *)
(* one record's image sets only that record's hex to null, every other     *)
(* task completes with its own result, and the batch finishes and returns  *)
(* all submitted records.                                                  *)
(***************************************************************************)
C18_FailureIsolated ==
    /\ [](Isolated /\ AllReturned)
    /\ <>(pool.main = "returned")

\* a batch of three paints has returned; the image of the second failed,
\* and it was the first task yielded: its hex is null, the others have
\* their colours
C18_Witness ==
    /\ pool # NoPool /\ pool.main = "returned"
    /\ Len(raw) = 3
    /\ pool.yielded[1] = 2
    /\ ~raw[2].img.ok /\ raw[1].img.ok /\ raw[3].img.ok
    /\ catalogue[2].hex = NoneStr
    /\ catalogue[1].hex = <<"#", "C", "8", "1", "E", "1", "E">>
    /\ catalogue[3].hex = <<"#", "F", "E", "F", "E", "F", "E">>

\* all_data when the ranges are scraped one after the other, in the order
\* of COLOR_RANGES
SequentialData ==
    CrossReferenced([i \in 1..Len(RangeKeys) |->
                       [key |-> RangeKeys[i], name |-> RangeNames[i], paints |-> raw[i]]])

(***************************************************************************)
(* C19.  The final output is deterministic regardless of scheduling: for   *)
(* fixed fetched inputs, the catalogue files a generate run persists are   *)
(* the same, entries, field values and order, for every order in which     *)
(* the parallel whole-range scrape tasks complete; they are the files of   *)
(* the run that scrapes the ranges one after the other.                    *)
(***************************************************************************)
C19_Deterministic ==
    pool.main = "persisted" => catalogue = GeneratedFiles(SequentialData)

\* the log of main ends with a call of cross_reference_rc_markers
CrossReferenceBegins ==
    /\ op' # op
    /\ op'[Len(op')] = "cross_reference"

(***************************************************************************)
(* C20.  The cross-reference of RC Markers with Real Colors runs strictly  *)
(* after all range scrapes: for range_workers = 1 and for range_workers >  *)
(* 1 alike, no call of cross_reference_rc_markers begins while a range     *)
(* scrape task is running or has not started.                              *)
(***************************************************************************)
C20_CrossReferenceLast ==
    [][CrossReferenceBegins => \A i \in 1..Len(RangeKeys) : pool.task[i] = "done"]_vars

\* two workers, the AIR range was yielded before the AFV range and the
\* markers before Real Colors; the cross-reference has run and given the
\* marker the hex of the Real Colors paint of its name
C20_Witness ==
    /\ pool # NoPool /\ pool.main = "crossed_in_branch"
    /\ pool.range_workers = 2
    /\ scraped[1].key = "air"
    /\ IndexOf(scraped, "rc-markers") < IndexOf(scraped, "real-colors")
    /\ raw[4] # <<>> /\ raw[4][1].hex = None
    /\ scraped[IndexOf(scraped, "rc-markers")].paints[1].hex = HEX_2

\* a brand prefix followed by digits only, at least one, letter case aside
BrandSkuWithNumber(sku) ==
    \E prefix \in {<<"A", "K">>, <<"R", "C", "S">>, <<"R", "C", "M">>, <<"R", "C">>,
                   <<"A", "K", "M">>} :
      \E n \in 1..Len(sku) :
        /\ Len(sku) = Len(prefix) + n
        /\ Upper(SubSeq(sku, 1, Len(prefix))) = prefix
        /\ \A i \in (Len(prefix) + 1)..Len(sku) : IsDigit(sku[i])


(***************************************************************************)
(* C21.  The AK product filter accepts a record exactly when its SKU is a  *)
(* brand prefix (AK, RCS, RCM, RC, AKM) followed by digits only and the    *)
(* SKU is not in the set-SKU exclusion list: AK11126-SET is rejected, and  *)
(* AK11126 is accepted when it is not in the exclusion list.               *)
(***************************************************************************)
C21_AkFilter ==
    op = <<"ak_is_paint_product">> =>
      /\ catalogue = <<BrandSkuWithNumber(raw.sku) /\ Upper(raw.sku) \notin scraped>>
      /\ raw.sku = SKU_AK11126_SET => catalogue = <<FALSE>>
      /\ raw.sku = SKU_AK11126 /\ SKU_AK11126 \notin scraped => catalogue = <<TRUE>>

\* the filter has taken AK11126 "Wood Brown" with a set list that holds
\* other SKUs
C21_Witness ==
    /\ op = <<"ak_is_paint_product">>
    /\ raw.sku = SKU_AK11126 /\ raw.name = NAME_Wood_Brown
    /\ scraped # {} /\ SKU_AK11126 \notin scraped
    /\ catalogue = <<TRUE>>

\* the record's name, or its URL where the filter reads one, holds a
\* keyword of the exclusion list of the brand whose filter was called; AK
\* has no list of its own, "set" stands for the keywords every list has
HasExcludedKeyword ==
    CASE op = <<"vallejo_is_paint_product">> ->
           \E keyword \in EXCLUDE_KEYWORDS :
             Contains(Lower(raw.title), keyword) \/ Contains(Lower(raw.product_url), keyword)
      [] op = <<"reaper_is_individual_paint">> ->
           \E kw \in exclude_keywords : Contains(Lower(raw.name), kw)
      [] op = <<"ak_is_paint_product">> ->
           Contains(Lower(raw.name), <<"s", "e", "t">>)
      [] OTHER -> FALSE

(***************************************************************************)
(* C22.  Every brand's product filter rejects a record whose name (or      *)
(* URL) contains, letter case aside, a keyword of the brand's exclusion    *)
(* list, whatever its SKU: a record with a valid SKU and the name          *)
(* "Starter Set" is never accepted as an individual paint.                 *)
(***************************************************************************)
C22_KeywordRejected ==
    HasExcludedKeyword => catalogue = <<FALSE>>

\* the same for the filters that have an exclusion list, Vallejo and Reaper
C22_ListedKeywordRejected ==
    HasExcludedKeyword /\ op # <<"ak_is_paint_product">> => catalogue = <<FALSE>>

\* the step is a call of fetch_set_skus
IsFetchSetSkus == pool'.calls = pool.calls + 1

\* the cache file is there and is 24 hours old or older
FileExpired == dir # <<>> /\ pool.now - dir[1].mtime >= 86400

\* a cache file json.load can read is there and is younger than 24 hours
FileValid == dir # <<>> /\ dir[1].readable /\ pool.now - dir[1].mtime < 86400

(***************************************************************************)
(* C23.  Set-SKU cache refresh policy: in any sequence of fetch_set_skus   *)
(* calls, a call fetches from the network whenever force-refresh is asked  *)
(* for or the cache file is 24 hours old or older; with a readable cache   *)
(* file younger than 24 hours and no force-refresh it makes no network     *)
(* fetch and returns the set of the file.                                  *)
(***************************************************************************)
C23_RefreshPolicy ==
    [][IsFetchSetSkus =>
         /\ (op'[1].force_refresh \/ FileExpired) => op'[1].fetched
         /\ (~op'[1].force_refresh /\ FileValid) =>
              ~op'[1].fetched /\ op'[1].returned = dir[1].skus]_vars

(***************************************************************************)
(* C23, amended.  The policy holds for a call made while the process       *)
(* holds no set in memory or with force-refresh; a call without            *)
(* force-refresh made while the process holds a non-empty set in memory    *)
(* makes no network fetch, reads no file and returns the set in memory,    *)
(* whatever the age of the cache file.                                     *)
(***************************************************************************)
C23_RefreshPolicyBehindMemory ==
    [][IsFetchSetSkus =>
         IF scraped # {} /\ ~op'[1].force_refresh
         THEN ~op'[1].fetched /\ op'[1].returned = scraped /\ dir' = dir
         ELSE /\ (op'[1].force_refresh \/ FileExpired) => op'[1].fetched
              /\ (~op'[1].force_refresh /\ FileValid) =>
                   ~op'[1].fetched /\ op'[1].returned = dir[1].skus]_vars

\* a process that started anew found the cache file exactly 24 hours old
\* and fetched the sets again: the file is rewritten with another set
C23_Witness ==
    /\ op # <<>> /\ pool # NoPool /\ pool.calls = 2
    /\ ~op[1].force_refresh /\ op[1].fetched
    /\ dirBefore # <<>> /\ dirBefore[1].readable
    /\ pool.now - dirBefore[1].mtime = 86400
    /\ dir[1].mtime = pool.now /\ dir[1].skus # dirBefore[1].skus
    /\ scraped = dir[1].skus

\* the scrape has returned, and left its loop on a page that was fetched,
\* that advertises a next page and that is not the last the safety limit
\* allows
StoppedBeforeNextPage ==
    /\ pool.main = "returned"
    /\ ~op[Len(op)].error /\ op[Len(op)].has_next
    /\ op[Len(op)].page < 50

(***************************************************************************)
(* C24.  A paginated range scrape stops on a page only when the page       *)
(* yields zero raw items before filtering: a page whose items are all      *)
(* removed by the product filter does not end the loop, the pages after    *)
(* it are still fetched when a next page exists.                           *)
(***************************************************************************)
C24_StopsOnlyOnEmptyPage ==
    StoppedBeforeNextPage => op[Len(op)].before_filter = 0

\* the same of the AK scrape alone
C24_AkStopsOnlyOnEmptyPage ==
    StoppedBeforeNextPage /\ pool.brand = "ak" => op[Len(op)].before_filter = 0

\* the single-file update of one brand has been applied twice to the file
AppliedTwice ==
    /\ Len(op) = 2 /\ op[1] = op[2]
    /\ op[1] \in {"ak_update_json", "vallejo_update_json", "citadel_update_json"}

(***************************************************************************)
(* C25.  The single-file update is idempotent with a zero second count:    *)
(* update_existing_json applied twice to the same file with the same       *)
(* scraped data leaves every entry after the second application as it was  *)
(* after the first, and the second application reports 0 paints updated.   *)
(***************************************************************************)
C25_IdempotentZeroCount ==
    AppliedTwice => dir = dirBefore /\ report.total_updated = 0

\* the entries alone: the second application changes nothing
C25_IdempotentEntries ==
    AppliedTwice => dir = dirBefore

\* the anchors of the call made, in layout order, the side of the square
\* averaged around each, the brightness gate and the weight of the
\* brightness penalty
Anchors ==
    CASE op = <<"ak_sample">> -> ak_sample_regions(scraped[1], raw.width, raw.height)
      [] op = <<"reaper_sample">> -> reaper_sample_regions(raw.width, raw.height)
      [] op = <<"vallejo_sample">> -> vallejo_sample_regions(raw.width, raw.height)

Reach == IF op = <<"reaper_sample">> THEN 6 ELSE 5
GateLow == IF op = <<"reaper_sample">> THEN 15 ELSE 10
GateHigh == IF op = <<"reaper_sample">> THEN 240 ELSE 245
PenaltyWeight == IF op = <<"ak_sample">> THEN <<1, 2>> ELSE <<3, 10>>

\* the averaged colour of every anchor
AnchorColors == [i \in 1..Len(Anchors) |-> RegionMean(raw, Anchors[i][1], Anchors[i][2], Reach)]

\* the mean brightness (r + g + b) / 3 of a colour is inside the gate
InGate(color) ==
    /\ 3 * GateLow <= color[1] + color[2] + color[3]
    /\ color[1] + color[2] + color[3] <= 3 * GateHigh

\* the score of colour a is less than that of colour b
ScoreBelow(a, b) ==
    Score(a, PenaltyWeight)[1] * Score(b, PenaltyWeight)[2]
      < Score(b, PenaltyWeight)[1] * Score(a, PenaltyWeight)[2]

\* the anchor the sampler has to take among the colours given: inside the
\* gate, no anchor inside the gate scores more, and those before it score
\* less
Chosen(anchor_colors) ==
    {i \in 1..Len(anchor_colors) :
       /\ InGate(anchor_colors[i])
       /\ \A j \in 1..Len(anchor_colors) :
            InGate(anchor_colors[j]) =>
              /\ ~ScoreBelow(anchor_colors[i], anchor_colors[j])
              /\ j < i => ScoreBelow(anchor_colors[j], anchor_colors[i])}

\* a sampler was called on an image that could be decoded
SamplerCalled == op # <<>> /\ raw.ok

(***************************************************************************)
(* C26.  Sampler selection respects the brightness gate: whenever the      *)
(* averaged colour of at least one anchor has its mean brightness inside   *)
(* the gate (10..245 for AK and Vallejo, 15..240 for Reaper), the colour   *)
(* returned is the averaged colour of an anchor inside the gate with the   *)
(* highest score among those inside the gate, the earliest in layout       *)
(* order on ties; the colour of an anchor outside the gate is never        *)
(* returned then.                                                          *)
(***************************************************************************)
C26_BestInsideGate ==
    SamplerCalled =>
      LET anchor_colors == AnchorColors
      IN  (\E i \in 1..Len(anchor_colors) : InGate(anchor_colors[i])) =>
            /\ \E i \in Chosen(anchor_colors) : catalogue = FormatHex(anchor_colors[i])
            /\ \A i \in 1..Len(anchor_colors) :
                 ~InGate(anchor_colors[i]) => catalogue # FormatHex(anchor_colors[i])

\* the AK sampler was called on an image whose first anchor is outside the
\* gate while a later one is inside it, and returned the colour of the
\* later one
C26_Witness ==
    /\ SamplerCalled /\ op = <<"ak_sample">>
    /\ LET anchor_colors == AnchorColors
       IN  /\ ~InGate(anchor_colors[1])
           /\ \E i \in Chosen(anchor_colors) :
                i > 1 /\ catalogue = FormatHex(anchor_colors[i])

\* a sampler returned the colour of an anchor that is not the first of
\* those inside the gate: it scores more than the ones before it
LaterAnchorWins ==
    /\ SamplerCalled
    /\ LET anchor_colors == AnchorColors
           inside == {i \in 1..Len(anchor_colors) : InGate(anchor_colors[i])}
       IN  /\ inside # {}
           /\ \E i \in Chosen(anchor_colors) :
                i > Min(inside) /\ catalogue = FormatHex(anchor_colors[i])

\* the positions in the log of the call of its attempts, of the failed
\* ones and of its sleeps
AttemptsAt == {k \in 1..Len(op) : op[k].kind = "attempt"}
FailuresAt == {k \in AttemptsAt : op[k].outcome = "fail"}
SleepsAt == {k \in 1..Len(op) : op[k].kind = "sleep"}

(***************************************************************************)
(* C27.  Retry is bounded and stops at the first success: a fetch called   *)
(* with retries = 3 makes at most 3 attempts, makes none after one that    *)
(* succeeded and returns the content of that one, sleeps only between      *)
(* two attempts and never after the last, and after the third failure in   *)
(* a row gives up: fetch_svg and Monument's fetch_page return None, the    *)
(* fetch_page of Reaper and Vallejo raise again.                           *)
(***************************************************************************)
C27_BoundedRetry ==
    pool.retries = 3 =>
      /\ Cardinality(AttemptsAt) <= 3
      /\ \A k \in AttemptsAt \ FailuresAt :
           k = Len(op) /\ pool.main = "returned" /\ catalogue # <<None>> /\ catalogue # <<>>
      /\ \A k \in SleepsAt :
           /\ k - 1 \in FailuresAt
           /\ pool.main = "calling" \/ k + 1 \in AttemptsAt
           /\ op[k].tenths > 0
      /\ Cardinality(FailuresAt) = 3 =>
           IF pool.fn \in {"fetch_svg", "monument_fetch_page"}
           THEN pool.main = "returned" /\ catalogue = <<None>>
           ELSE pool.main = "raised"
      /\ pool.main # "calling" =>
           Cardinality(FailuresAt) = 3 \/ AttemptsAt \ FailuresAt # {}

\* fetch_svg failed twice, slept after each failure, and returned the
\* content of its third attempt
C27_Witness ==
    /\ pool # NoPool /\ pool.fn = "fetch_svg" /\ pool.retries = 3 /\ pool.delay = 5
    /\ pool.main = "returned"
    /\ op = <<Attempted("fail"), Slept(5), Attempted("fail"), Slept(10), Attempted("ok")>>
    /\ catalogue = <<"content_b">>

\* the fields of a catalogue entry that no merge assigns
KeptFields == {"name", "id"}

\* the last run kept every file's shape and its number of entries, and the
\* name and the id of every entry
FieldsKept ==
    \A f \in 1..Len(dirBefore) :
      /\ dir[f].shape = dirBefore[f].shape
      /\ dir[f].range = dirBefore[f].range
      /\ dir[f].name = dirBefore[f].name
      /\ Len(dir[f].paints) = Len(dirBefore[f].paints)
      /\ \A i \in Entries(f) : \A k \in KeptFields : New(f, i)[k] = Old(f, i)[k]

\* the batch run wrote no file in which it updated no entry
UntouchedNotWritten ==
    AfterBatch =>
      \A f \in 1..Len(dirBefore) :
        report.files[f].updated = 0 => ~report.files[f].written /\ dir[f] = dirBefore[f]

\* the batch run matched entry i of file f by name and rewrote its sku and
\* its url after the record
RenamedWithUrl(f, i) ==
    /\ AfterBatch
    /\ NameMatched(f, i)
    /\ New(f, i).sku # Old(f, i).sku
    /\ New(f, i).sku = NameRecord(f, i).sku
    /\ New(f, i).url = NameRecord(f, i).product_url

\* Vallejo's update of one file matched entry i of file f by SKU, found it
\* without a url, and gave it the product_url of the record
UrlFilled(f, i) ==
    /\ LastOp = "vallejo_update_json"
    /\ Old(f, i).url \in {None, ""}
    /\ New(f, i).sku = Old(f, i).sku
    /\ \E r \in Sampled(scraped) :
         /\ vallejo_normalize_sku(scraped[r].sku) = vallejo_normalize_sku(Old(f, i).sku)
         /\ New(f, i).url = scraped[r].product_url

(***************************************************************************)
(* C28 as stated.  Merge frame condition: a merge run changes no field of  *)
(* an entry other than hex, sku and url, and adds or removes no entry;     *)
(* the name of an entry is never overwritten; the url changes only on an   *)
(* entry that was matched by name and whose sku the same step rewrites;    *)
(* and the batch run writes no file in which it updated no entry.          *)
(***************************************************************************)
C28_MergeFrame ==
    op # <<>> =>
      /\ FieldsKept
      /\ \A f \in 1..Len(dirBefore) : \A i \in Entries(f) :
           New(f, i).url # Old(f, i).url => RenamedWithUrl(f, i)
      /\ UntouchedNotWritten

(***************************************************************************)
(* C28 amended.  A merge run changes no field of an entry other than hex,  *)
(* sku and url, adds or removes no entry and never overwrites a name.  In  *)
(* batch mode the url changes only on an entry matched by name whose sku   *)
(* the same step rewrites; Vallejo's update of a single file also gives    *)
(* an entry matched by SKU that has no url the product_url of its record;  *)
(* no other merge path changes a url.  The batch run writes no file in     *)
(* which it updated no entry.                                              *)
(***************************************************************************)
C28_MergeFrameByPath ==
    op # <<>> =>
      /\ FieldsKept
      /\ \A f \in 1..Len(dirBefore) : \A i \in Entries(f) :
           New(f, i).url # Old(f, i).url => RenamedWithUrl(f, i) \/ UrlFilled(f, i)
      /\ UntouchedNotWritten

\* a batch run rewrote the sku, the url and the hex of an entry it matched
\* by name to a record of another title, and kept the name of the entry
C28_Witness ==
    /\ AfterBatch
    /\ report.files[1].written
    /\ \E i \in Entries(1) :
         /\ RenamedWithUrl(1, i)
         /\ NameRecord(1, i).title # Old(1, i).name
         /\ New(1, i).url # Old(1, i).url
         /\ New(1, i).hex # Old(1, i).hex
         /\ New(1, i).name = Old(1, i).name

\* helpers of C28, each of them reachable: Vallejo's update of one file
\* filled a url, and a batch run left a file of entries unwritten
C28_UrlFilled ==
    \E i \in Entries(1) : UrlFilled(1, i) /\ New(1, i).url # Old(1, i).url

C28_NotWritten ==
    /\ AfterBatch
    /\ dirBefore[1].paints # <<>>
    /\ report.files[1].updated = 0
    /\ ~report.files[1].written

\* h is the hex of a fresh record of the last run (for Monument, a colour
\* of the dict sampled)
FreshHex(h) ==
    IF AfterMonument
    THEN \E sku \in DOMAIN colors : colors[sku] = h
    ELSE \E r \in 1..Len(scraped) : scraped[r].hex = h

\* the fresh records of the last run whose colour sampling failed and whose
\* normalized SKU is that of entry e
FailedRecords(e) ==
    { r \in 1..Len(scraped) : /\ scraped[r].hex \in {None, ""}
                              /\ Len(scraped[r].sku) > 0
                              /\ NormSku(scraped[r].sku) = NormSku(e.sku) }

(***************************************************************************)
(* C29.  Merge never clears a colour: in every merge path a hex written    *)
(* onto an existing entry is the hex, neither null nor empty, of a fresh   *)
(* record, and an entry that had a hex before a merge run has one after    *)
(* it, also when fresh records failed colour sampling.                     *)
(***************************************************************************)
C29_NeverClears ==
    op # <<>> =>
      \A f \in 1..Len(dirBefore) :
        /\ Len(dir[f].paints) = Len(dirBefore[f].paints)
        /\ \A i \in Entries(f) :
             /\ New(f, i).hex # Old(f, i).hex
                => New(f, i).hex \notin {None, ""} /\ FreshHex(New(f, i).hex)
             /\ Old(f, i).hex \notin {None, ""} => New(f, i).hex \notin {None, ""}

\* a batch run whose fresh record of an entry's SKU failed colour sampling
\* left that entry its hex, and wrote the hex of another record onto
\* another entry
C29_Witness ==
    /\ AfterBatch
    /\ \E i, j \in Entries(1) :
         /\ FailedRecords(Old(1, i)) # {}
         /\ Old(1, i).hex \notin {None, ""}
         /\ New(1, i).hex = Old(1, i).hex
         /\ New(1, j).hex # Old(1, j).hex
         /\ New(1, j).hex \notin {None, ""}

\* a call of scrape_color_range or of fetch_sets_from_url of AK, and its
\* return
AkPaging == pool.brand \in {"ak", "ak_sets"}
AkReturned == AkPaging /\ pool.main = "returned"

\* what the call has collected: all_paints, set_skus
Collected == IF pool.brand = "ak" THEN scraped ELSE colors

RECURSIVE SumPaints(_)
SumPaints(log) == IF log = <<>> THEN 0 ELSE Head(log).paints + SumPaints(Tail(log))

\* the call has fetched pages 1, 2, ... in turn, no more than 50 of them,
\* has returned once it fetched the 50th or a fetch failed, and returns
\* what it collected from the pages before
PagesBounded ==
    AkPaging =>
      /\ Len(op) <= 50
      /\ \A k \in 1..Len(op) : op[k].page = k
      /\ \A k \in 1..Len(op) - 1 : ~op[k].error
      /\ Len(op) = 50 => pool.main = "returned"
      /\ op # <<>> /\ op[Len(op)].error => pool.main = "returned"
      /\ pool.main = "returned" => catalogue = Collected
      /\ pool.brand = "ak" => Len(scraped) = SumPaints(op)
      /\ pool.brand = "ak_sets" /\ SumPaints(op) > 0 => colors[1] # {}

(***************************************************************************)
(* C30.  AK pagination always terminates: whatever pages the site          *)
(* returns, also pages that always advertise a next page,                  *)
(* scrape_color_range and fetch_sets_from_url fetch at most 50 pages and   *)
(* then return; a page that cannot be fetched ends the loop, and the       *)
(* paints collected from the pages before it are returned.                 *)
(***************************************************************************)
C30_Terminates == []PagesBounded /\ (AkPaging ~> AkReturned)

\* scrape_color_range on a site every page of which has paints and
\* advertises a next page: 50 pages fetched, and the paints returned
C30_Witness ==
    /\ pool.brand = "ak" /\ pool.main = "returned"
    /\ Len(op) = 50
    /\ \A k \in 1..50 : op[k].has_next /\ op[k].paints > 0
    /\ Len(catalogue) >= 50

\* helpers of C30, each of them reachable: fetch_sets_from_url fetched 50
\* pages and returned; scrape_color_range returned the paints of its first
\* page after the second could not be fetched
C30_SetsLimit ==
    /\ pool.brand = "ak_sets" /\ pool.main = "returned"
    /\ Len(op) = 50 /\ catalogue # <<{}>>

C30_ErrorKeepsPaints ==
    /\ pool.brand = "ak" /\ pool.main = "returned"
    /\ Len(op) = 2 /\ op[2].error /\ op[1].paints > 0
    /\ Len(catalogue) = op[1].paints

====
